---- MODULE Spec2Model ----
(***************************************************************************)
(* A model of the strided iteration core of imgref-iter: the pointer       *)
(* cursor IterPtr (src/iter/generic/ptr.rs), its safe wrapper Iter         *)
(* (src/iter/generic/mod.rs) and the constructors of the row/column window *)
(* sequences (src/iter/windows, src/iter/simd_windows).                    *)
(*                                                                         *)
(* Addresses are counted in elements.  A slice pointer *const [T] is the   *)
(* pair (base, len); a cursor is the slice pointer plus its stride.  usize *)
(* arithmetic is modelled modulo 2^UsizeBits; the build either traps an    *)
(* overflow (overflow_checks, the debug profile) or wraps it (release).    *)
(***************************************************************************)
EXTENDS Integers, Sequences, FiniteSets, TLC

\* ---------------------------------------------------------------- bounds
MaxCount == 7
MaxStride == 5
MaxWidth == 4
MaxHeight == 3
MaxSteps == 7
UsizeBits == 16
BufBase == 8
MaxLanes == 3
MaxIndices == 5

\* ------------------------------------------------------- usize arithmetic
RECURSIVE Pow2(_)
Pow2(n) == IF n = 0 THEN 1 ELSE 2 * Pow2(n - 1)

Modulus == Pow2(UsizeBits)

\* the value a usize holds after an operation whose exact result is x
Wrap(x) == ((x % Modulus) + Modulus) % Modulus

\* the exact result x does not fit a usize
Overflows(x) == x < 0 \/ x >= Modulus

Min(a, b) == IF a <= b THEN a ELSE b

\* usize::saturating_sub
saturating_sub(a, b) == IF a >= b THEN a - b ELSE 0

\* ------------------------------------------------------------ the cursor
\* IterPtr<T>(*const [T], usize): slice pointer (base, len) and stride
Cursor(base, len, stride) == [base |-> base, len |-> len, stride |-> stride]

NoCursor == Cursor(0, 0, 1)

\* Option<*const T>: <<>> is None, <<a>> is Some(a)
None == <<>>
Some(a) == <<a>>

\* the outcome of a constructor call
Panic == [status |-> "panic", cursor |-> NoCursor, computed |-> FALSE, ub |-> FALSE]
Returned(c, ub) == [status |-> "ok", cursor |-> c, computed |-> TRUE, ub |-> ub]

\* Img<*const [T]>: the buffer pointer (data, buflen) and the dimensions
Img(data, buflen, width, height, stride) ==
    [data |-> data, buflen |-> buflen, width |-> width, height |-> height, stride |-> stride]

NoImg == Img(0, 0, 0, 0, 1)

\* IterPtr::is_slice_perfect; len % 0 panics
is_slice_perfect_panics(len, stride) == len # 0 /\ stride # 1 /\ stride = 0

is_slice_perfect(len, stride) == len = 0 \/ stride = 1 \/ len % stride = 1

\* stride * (height - 1) + tail, as usize arithmetic
StridedLen(stride, height, tail) ==
    LET h1 == height - 1
        m  == stride * Wrap(h1)
        s  == Wrap(m) + tail
    IN  [v |-> Wrap(s), ovf |-> Overflows(h1) \/ Overflows(m) \/ Overflows(s)]

\* IterPtr::assert_slice_enough: TRUE when it returns, FALSE when it panics
assert_slice_enough(img, checks) ==
    LET needed == StridedLen(img.stride, img.height, img.width)
    IN  /\ ~(checks /\ needed.ovf)
        /\ ~(img.buflen < needed.v)
        /\ ~(img.width > img.stride)

IterPtr_new_unchecked(base, len, stride) == Returned(Cursor(base, len, stride), FALSE)

\* new() that forgets its assertion
IterPtr_new_unasserted(base, len, stride) == IterPtr_new_unchecked(base, len, stride)

IterPtr_new(base, len, stride) ==
    IF is_slice_perfect_panics(len, stride) THEN Panic
    ELSE IF ~is_slice_perfect(len, stride) THEN Panic
    ELSE IterPtr_new_unchecked(base, len, stride)

\* IterPtr::new_slice: the slice reference cast to a slice pointer
IterPtr_new_slice(base, len, stride) == IterPtr_new(base, len, stride)

IterPtr_new_slice_unchecked(base, len, stride) == IterPtr_new_unchecked(base, len, stride)

\* ptr.add(off) leaves the backing store of the buffer
OutOfStore(img, off) == off > img.buflen

\* the row offset taken as row * width instead of row * stride
IterPtr_row_ptr_unchecked_width(img, row, checks) ==
    LET off == row * img.width
    IN  IF checks /\ Overflows(off) THEN Panic
        ELSE [IterPtr_new_unchecked(img.data + Wrap(off), img.width, 1)
                EXCEPT !.ub = OutOfStore(img, Wrap(off))]

IterPtr_row_ptr_unchecked(img, row, checks) ==
    LET off == row * img.stride
    IN  IF checks /\ Overflows(off) THEN Panic
        ELSE [IterPtr_new_unchecked(img.data + Wrap(off), img.width, 1)
                EXCEPT !.ub = OutOfStore(img, Wrap(off))]

IterPtr_row_ptr(img, row, checks) ==
    IF ~assert_slice_enough(img, checks) THEN Panic
    ELSE IF ~(row < img.height) THEN Panic
    ELSE IterPtr_row_ptr_unchecked(img, row, checks)

\* col_ptr_unchecked with a run of stride * height + 1 elements
IterPtr_col_ptr_unchecked_full_height(img, col, checks) ==
    LET len == StridedLen(img.stride, img.height + 1, 1)
    IN  IF checks /\ len.ovf THEN [Panic EXCEPT !.computed = TRUE]
        ELSE [IterPtr_new_unchecked(img.data + col, len.v, img.stride)
                EXCEPT !.ub = OutOfStore(img, col)]

IterPtr_col_ptr_unchecked(img, col, checks) ==
    LET len == StridedLen(img.stride, img.height, 1)
    IN  IF checks /\ len.ovf THEN [Panic EXCEPT !.computed = TRUE]
        ELSE [IterPtr_new_unchecked(img.data + col, len.v, img.stride)
                EXCEPT !.ub = OutOfStore(img, col)]

IterPtr_col_ptr(img, col, checks) ==
    IF ~assert_slice_enough(img, checks) THEN Panic
    ELSE IF ~(col < img.width) THEN Panic
    ELSE IterPtr_col_ptr_unchecked(img, col, checks)

\* Iter::new_ptr_unchecked wraps IterPtr::new
Iter_new_ptr_unchecked(base, len, stride) == IterPtr_new(base, len, stride)

Iter_new_ptr(base, len, stride) ==
    IF is_slice_perfect_panics(len, stride) THEN Panic
    ELSE IF ~is_slice_perfect(len, stride) THEN Panic
    ELSE Iter_new_ptr_unchecked(base, len, stride)

Iter_new(base, len, stride) == Iter_new_ptr(base, len, stride)

Iter_new_unchecked(base, len, stride) == Iter_new_ptr_unchecked(base, len, stride)

Iter_row_ptr_unchecked(img, row, checks) ==
    LET off == row * img.stride
    IN  IF checks /\ Overflows(off) THEN Panic
        ELSE LET r == Iter_new_ptr_unchecked(img.data + Wrap(off), img.width, 1)
             IN  [r EXCEPT !.computed = TRUE, !.ub = OutOfStore(img, Wrap(off))]

\* the row check off by one: row <= height
Iter_row_ptr_inclusive(img, row, checks) ==
    IF ~(row <= img.height) THEN Panic
    ELSE Iter_row_ptr_unchecked(img, row, checks)

Iter_row_ptr(img, row, checks) ==
    IF ~(row < img.height) THEN Panic
    ELSE Iter_row_ptr_unchecked(img, row, checks)

Iter_row(img, row, checks) == Iter_row_ptr(img, row, checks)

Iter_col_ptr_unchecked(img, col, checks) ==
    LET len == StridedLen(img.stride, img.height, 1)
    IN  IF checks /\ len.ovf THEN [Panic EXCEPT !.computed = TRUE]
        ELSE LET r == Iter_new_ptr_unchecked(img.data + col, len.v, img.stride)
             IN  [r EXCEPT !.computed = TRUE, !.ub = OutOfStore(img, col)]

Iter_col_ptr(img, col, checks) ==
    IF ~(col < img.width) THEN Panic
    ELSE Iter_col_ptr_unchecked(img, col, checks)

Iter_col(img, col, checks) == Iter_col_ptr(img, col, checks)

\* ------------------------------------------- the mutable counterparts
\* IterPtrMut::assert_slice_enough delegates to IterPtr::assert_slice_enough
IterPtrMut_assert_slice_enough(img, checks) == assert_slice_enough(img, checks)

IterPtrMut_new_unchecked(base, len, stride) == Returned(Cursor(base, len, stride), FALSE)

IterPtrMut_new(base, len, stride) ==
    IF is_slice_perfect_panics(len, stride) THEN Panic
    ELSE IF ~is_slice_perfect(len, stride) THEN Panic
    ELSE IterPtrMut_new_unchecked(base, len, stride)

IterPtrMut_row_ptr_unchecked(img, row, checks) ==
    LET off == row * img.stride
    IN  IF checks /\ Overflows(off) THEN Panic
        ELSE [IterPtrMut_new_unchecked(img.data + Wrap(off), img.width, 1)
                EXCEPT !.ub = OutOfStore(img, Wrap(off))]

IterPtrMut_row_ptr(img, row, checks) ==
    IF ~IterPtrMut_assert_slice_enough(img, checks) THEN Panic
    ELSE IF ~(row < img.height) THEN Panic
    ELSE IterPtrMut_row_ptr_unchecked(img, row, checks)

IterPtrMut_col_ptr_unchecked(img, col, checks) ==
    LET len == StridedLen(img.stride, img.height, 1)
    IN  IF checks /\ len.ovf THEN [Panic EXCEPT !.computed = TRUE]
        ELSE [IterPtrMut_new_unchecked(img.data + col, len.v, img.stride)
                EXCEPT !.ub = OutOfStore(img, col)]

IterPtrMut_col_ptr(img, col, checks) ==
    IF ~IterPtrMut_assert_slice_enough(img, checks) THEN Panic
    ELSE IF ~(col < img.width) THEN Panic
    ELSE IterPtrMut_col_ptr_unchecked(img, col, checks)

IterPtrMut_new_slice(base, len, stride) == IterPtrMut_new(base, len, stride)

IterPtrMut_new_slice_unchecked(base, len, stride) == IterPtrMut_new_unchecked(base, len, stride)

\* IterMut::new_ptr_unchecked wraps IterPtrMut::new
IterMut_new_ptr_unchecked(base, len, stride) == IterPtrMut_new(base, len, stride)

IterMut_new_ptr(base, len, stride) ==
    IF is_slice_perfect_panics(len, stride) THEN Panic
    ELSE IF ~is_slice_perfect(len, stride) THEN Panic
    ELSE IterMut_new_ptr_unchecked(base, len, stride)

IterMut_new(base, len, stride) == IterMut_new_ptr(base, len, stride)

IterMut_new_unchecked(base, len, stride) == IterMut_new_ptr_unchecked(base, len, stride)

IterMut_row_ptr_unchecked(img, row, checks) ==
    LET off == row * img.stride
    IN  IF checks /\ Overflows(off) THEN Panic
        ELSE LET r == IterMut_new_ptr_unchecked(img.data + Wrap(off), img.width, 1)
             IN  [r EXCEPT !.computed = TRUE, !.ub = OutOfStore(img, Wrap(off))]

IterMut_row_ptr(img, row, checks) ==
    IF ~(row < img.height) THEN Panic
    ELSE IterMut_row_ptr_unchecked(img, row, checks)

IterMut_row(img, row, checks) == IterMut_row_ptr(img, row, checks)

IterMut_col_ptr_unchecked(img, col, checks) ==
    LET len == StridedLen(img.stride, img.height, 1)
    IN  IF checks /\ len.ovf THEN [Panic EXCEPT !.computed = TRUE]
        ELSE LET r == IterMut_new_ptr_unchecked(img.data + col, len.v, img.stride)
             IN  [r EXCEPT !.computed = TRUE, !.ub = OutOfStore(img, col)]

IterMut_col_ptr(img, col, checks) ==
    IF ~(col < img.width) THEN Panic
    ELSE IterMut_col_ptr_unchecked(img, col, checks)

IterMut_col(img, col, checks) == IterMut_col_ptr(img, col, checks)

\* ------------------------------------------------------- cursor stepping
\* next() that yields the first address without moving the base
IterPtr_next_stuck(c) ==
    IF c.len > 0
    THEN [cursor |-> Cursor(c.base, saturating_sub(c.len, c.stride), c.stride),
          item |-> Some(c.base)]
    ELSE [cursor |-> c, item |-> None]

\* next() that moves the base by one element instead of by the stride
IterPtr_next_unit(c) ==
    IF c.len > 0
    THEN [cursor |-> Cursor(c.base + 1, saturating_sub(c.len, c.stride), c.stride),
          item |-> Some(c.base)]
    ELSE [cursor |-> c, item |-> None]

\* next() that shortens the run by one element instead of by the stride
IterPtr_next_count_down(c) ==
    IF c.len > 0
    THEN [cursor |-> Cursor(c.base + Min(c.stride, c.len), c.len - 1, c.stride),
          item |-> Some(c.base)]
    ELSE [cursor |-> c, item |-> None]

\* next() that subtracts the stride from the count with wrapping_sub
IterPtr_next_wrapping_sub(c) ==
    IF c.len > 0
    THEN [cursor |-> Cursor(c.base + Min(c.stride, c.len),
                            (c.len - c.stride) % Modulus, c.stride),
          item |-> Some(c.base)]
    ELSE [cursor |-> c, item |-> None]

\* next() that moves the base by the stride even past the end of the run
IterPtr_next_no_min(c) ==
    IF c.len > 0
    THEN [cursor |-> Cursor(c.base + c.stride, saturating_sub(c.len, c.stride), c.stride),
          item |-> Some(c.base)]
    ELSE [cursor |-> c, item |-> None]

IterPtr_next(c) ==
    IF c.len > 0
    THEN [cursor |-> Cursor(c.base + Min(c.stride, c.len),
                            saturating_sub(c.len, c.stride), c.stride),
          item |-> Some(c.base)]
    ELSE [cursor |-> c, item |-> None]

\* next_back() that shrinks the run by one element instead of by the stride
IterPtr_next_back_shrink1(c) ==
    IF c.len > 0
    THEN [cursor |-> Cursor(c.base, c.len - 1, c.stride),
          item |-> Some(c.base + (c.len - 1))]
    ELSE [cursor |-> c, item |-> None]

\* next_back() without the emptiness test
IterPtr_next_back_unguarded(c) ==
    [cursor |-> Cursor(c.base, saturating_sub(c.len, c.stride), c.stride),
     item |-> Some(c.base + (c.len - 1))]

\* next_back() that yields the address one past the last element of the run
IterPtr_next_back_past_end(c) ==
    IF c.len > 0
    THEN [cursor |-> Cursor(c.base, saturating_sub(c.len, c.stride), c.stride),
          item |-> Some(c.base + c.len)]
    ELSE [cursor |-> c, item |-> None]

\* next_back() that also moves the base, as next() does
IterPtr_next_back_moving(c) ==
    IF c.len > 0
    THEN [cursor |-> Cursor(c.base + Min(c.stride, c.len),
                            saturating_sub(c.len, c.stride), c.stride),
          item |-> Some(c.base + (c.len - 1))]
    ELSE [cursor |-> c, item |-> None]

IterPtr_next_back(c) ==
    IF c.len > 0
    THEN [cursor |-> Cursor(c.base, saturating_sub(c.len, c.stride), c.stride),
          item |-> Some(c.base + (c.len - 1))]
    ELSE [cursor |-> c, item |-> None]

\* ExactSizeIterator::len: (len + (stride - 1)) / stride
IterPtr_len(c, checks) ==
    LET s1  == c.stride - 1
        sum == c.len + Wrap(s1)
    IN  IF (checks /\ (Overflows(s1) \/ Overflows(sum))) \/ c.stride = 0
        THEN [status |-> "panic", v |-> 0]
        ELSE [status |-> "ok", v |-> Wrap(sum) \div c.stride]

\* ------------------------------------------------- the window sequences
\* IterWindowsPtr<T>(*const [T], usize, usize, Range<usize>): the first window
\* (base, len), its stride, the displacement per index, the range lo..hi
WinSeq(base, len, slice_stride, iter_stride, n) ==
    [base |-> base, len |-> len, slice_stride |-> slice_stride,
     iter_stride |-> iter_stride, lo |-> 0, hi |-> n]

NoSeq == WinSeq(0, 0, 1, 1, 0)

SeqPanic == [status |-> "panic", seq |-> NoSeq]
SeqReturned(q) == [status |-> "ok", seq |-> q]

IterWindowsPtr_new_unchecked(base, len, slice_stride, iter_stride, n) ==
    SeqReturned(WinSeq(base, len, slice_stride, iter_stride, n))

\* IterWindowsPtr::new: the first window must be slice-perfect
IterWindowsPtr_new(base, len, slice_stride, iter_stride, n) ==
    IF is_slice_perfect_panics(len, slice_stride) THEN SeqPanic
    ELSE IF ~is_slice_perfect(len, slice_stride) THEN SeqPanic
    ELSE IterWindowsPtr_new_unchecked(base, len, slice_stride, iter_stride, n)

IterWindowsPtrMut_new_unchecked(base, len, slice_stride, iter_stride, n) ==
    SeqReturned(WinSeq(base, len, slice_stride, iter_stride, n))

IterWindowsPtrMut_new(base, len, slice_stride, iter_stride, n) ==
    IF is_slice_perfect_panics(len, slice_stride) THEN SeqPanic
    ELSE IF ~is_slice_perfect(len, slice_stride) THEN SeqPanic
    ELSE IterWindowsPtrMut_new_unchecked(base, len, slice_stride, iter_stride, n)

IterWindowsPtr_rows_ptr(img, checks) ==
    IterWindowsPtr_new_unchecked(img.data, img.width, 1, img.stride, img.height)

IterWindowsPtr_cols_ptr(img, checks) ==
    LET len == StridedLen(img.stride, img.height, 1)
    IN  IF checks /\ len.ovf THEN SeqPanic
        ELSE IterWindowsPtr_new_unchecked(img.data, len.v, img.stride, 1, img.width)

\* IterWindows::rows wraps IterWindowsPtr::rows, which calls rows_ptr
IterWindows_rows(img, checks) == IterWindowsPtr_rows_ptr(img, checks)

IterWindows_cols(img, checks) == IterWindowsPtr_cols_ptr(img, checks)

SimdIterWindowsPtr_new_unchecked(base, len, slice_stride, iter_stride, n) ==
    SeqReturned(WinSeq(base, len, slice_stride, iter_stride, n))

SimdIterWindowsPtr_rows_ptr(img, checks) ==
    IF ~assert_slice_enough(img, checks) THEN SeqPanic
    ELSE SimdIterWindowsPtr_new_unchecked(img.data, img.width, 1, img.stride, img.height)

SimdIterWindowsPtr_cols_ptr(img, checks) ==
    IF ~assert_slice_enough(img, checks) THEN SeqPanic
    ELSE LET len == StridedLen(img.stride, img.height, 1)
         IN  IF checks /\ len.ovf THEN SeqPanic
             ELSE SimdIterWindowsPtr_new_unchecked(img.data, len.v, img.stride, 1, img.width)

\* SimdIterWindowsPtr::new: the first window must be slice-perfect
SimdIterWindowsPtr_new(base, len, slice_stride, iter_stride, n) ==
    IF is_slice_perfect_panics(len, slice_stride) THEN SeqPanic
    ELSE IF ~is_slice_perfect(len, slice_stride) THEN SeqPanic
    ELSE SimdIterWindowsPtr_new_unchecked(base, len, slice_stride, iter_stride, n)

\* IterWindowsPtr::window: the first window moved by offset elements
window(q, offset) == [base |-> q.base + offset, len |-> q.len]

\* next() that slides the stored first window along instead of offsetting it
IterWindowsPtr_next_sliding(q) ==
    IF q.lo < q.hi
    THEN LET w == window(q, q.lo * q.iter_stride)
         IN  [seq |-> [q EXCEPT !.lo = q.lo + 1, !.base = w.base], index |-> Some(q.lo),
              item |-> IterPtr_new(w.base, w.len, q.slice_stride)]
    ELSE [seq |-> q, index |-> None, item |-> Panic]

\* IterWindowsPtr::next: pop the front index, build its cursor with IterPtr::new
IterWindowsPtr_next(q) ==
    IF q.lo < q.hi
    THEN LET w == window(q, q.lo * q.iter_stride)
         IN  [seq |-> [q EXCEPT !.lo = q.lo + 1], index |-> Some(q.lo),
              item |-> IterPtr_new(w.base, w.len, q.slice_stride)]
    ELSE [seq |-> q, index |-> None, item |-> Panic]

\* IterWindowsPtr::next_back: pop the back index
IterWindowsPtr_next_back(q) ==
    IF q.lo < q.hi
    THEN LET w == window(q, (q.hi - 1) * q.iter_stride)
         IN  [seq |-> [q EXCEPT !.hi = q.hi - 1], index |-> Some(q.hi - 1),
              item |-> IterPtr_new(w.base, w.len, q.slice_stride)]
    ELSE [seq |-> q, index |-> None, item |-> Panic]

\* ExactSizeIterator::len of the sequence: the length of the range
IterWindowsPtr_len(q) == q.hi - q.lo

\* the mutable sequence: IterPtrMut in place of IterPtr
IterWindowsPtrMut_rows_ptr(img, checks) ==
    IterWindowsPtrMut_new_unchecked(img.data, img.width, 1, img.stride, img.height)

IterWindowsPtrMut_cols_ptr(img, checks) ==
    LET len == StridedLen(img.stride, img.height, 1)
    IN  IF checks /\ len.ovf THEN SeqPanic
        ELSE IterWindowsPtrMut_new_unchecked(img.data, len.v, img.stride, 1, img.width)

\* IterWindowsMut::rows wraps IterWindowsPtrMut::rows, which calls rows_ptr
IterWindowsMut_rows(img, checks) == IterWindowsPtrMut_rows_ptr(img, checks)

IterWindowsMut_cols(img, checks) == IterWindowsPtrMut_cols_ptr(img, checks)

\* IterWindowsPtrMut::next with every window anchored at the first one
IterWindowsPtrMut_next_unmoved(q) ==
    IF q.lo < q.hi
    THEN LET w == window(q, 0)
         IN  [seq |-> [q EXCEPT !.lo = q.lo + 1], index |-> Some(q.lo),
              item |-> IterPtrMut_new(w.base, w.len, q.slice_stride)]
    ELSE [seq |-> q, index |-> None, item |-> Panic]

IterWindowsPtrMut_next(q) ==
    IF q.lo < q.hi
    THEN LET w == window(q, q.lo * q.iter_stride)
         IN  [seq |-> [q EXCEPT !.lo = q.lo + 1], index |-> Some(q.lo),
              item |-> IterPtrMut_new(w.base, w.len, q.slice_stride)]
    ELSE [seq |-> q, index |-> None, item |-> Panic]

IterWindowsPtrMut_next_back(q) ==
    IF q.lo < q.hi
    THEN LET w == window(q, (q.hi - 1) * q.iter_stride)
         IN  [seq |-> [q EXCEPT !.hi = q.hi - 1], index |-> Some(q.hi - 1),
              item |-> IterPtrMut_new(w.base, w.len, q.slice_stride)]
    ELSE [seq |-> q, index |-> None, item |-> Panic]

\* --------------------------------------------------- the safe wrappers
\* &*ptr: the reference to the element at the address
Ref(a) == [addr |-> a]

\* Iter::next with the step of next_back
Iter_next_from_back(c) ==
    LET r == IterPtr_next_back(c)
    IN  [cursor |-> r.cursor, item |-> IF r.item = None THEN None ELSE Some(Ref(r.item[1]))]

\* Iter::next: self.0.next().map(|ptr| &*ptr)
Iter_next(c) ==
    LET r == IterPtr_next(c)
    IN  [cursor |-> r.cursor, item |-> IF r.item = None THEN None ELSE Some(Ref(r.item[1]))]

\* Iter::next_back: self.0.next_back().map(|ptr| &*ptr)
Iter_next_back(c) ==
    LET r == IterPtr_next_back(c)
    IN  [cursor |-> r.cursor, item |-> IF r.item = None THEN None ELSE Some(Ref(r.item[1]))]

\* Iter::len: self.0.len()
Iter_len(c, checks) == IterPtr_len(c, checks)

\* Iter::wrap: the Iter over a pointer cursor
Iter_wrap(c) == [iter |-> c]

\* IterWindows::next: self.0.next().map(|ptr| Iter::wrap(ptr))
IterWindows_next(q) ==
    LET r == IterWindowsPtr_next(q)
    IN  [seq |-> r.seq, index |-> r.index, status |-> r.item.status,
         item |-> Iter_wrap(r.item.cursor)]

\* IterWindows::next_back
IterWindows_next_back(q) ==
    LET r == IterWindowsPtr_next_back(q)
    IN  [seq |-> r.seq, index |-> r.index, status |-> r.item.status,
         item |-> Iter_wrap(r.item.cursor)]

\* IterWindows::len: self.0.len()
IterWindows_len(q) == IterWindowsPtr_len(q)

\* ------------------------------------------------------ the lane sequence
\* the outcome of a step of SimdIterWindowsPtr: status "none" (None returned),
\* "panic", or "ok" with the item SimdIterWindowPtr::Simd or ::Single
LaneNone(q) ==
    [status |-> "none", seq |-> q, simd |-> FALSE, index |-> 0, cursor |-> NoCursor, gap |-> 0]

LanePanic(q) ==
    [status |-> "panic", seq |-> q, simd |-> FALSE, index |-> 0, cursor |-> NoCursor, gap |-> 0]

\* the item built for the popped index: IterPtr::new over its window, wrapped
\* by SimdIterPtr::new(iter, iter_stride) when LANES indices were taken
LaneItem(q, q2, simd, index) ==
    LET w  == window(q, index * q.iter_stride)
        it == IterPtr_new(w.base, w.len, q.slice_stride)
    IN  IF it.status = "panic" THEN LanePanic(q2)
        ELSE [status |-> "ok", seq |-> q2, simd |-> simd, index |-> index,
              cursor |-> it.cursor, gap |-> IF simd THEN q.iter_stride ELSE 0]

\* SimdIterWindowsPtr::next.  With LANES = 0 the first branch is always taken
\* and an unwrap (or LANES - 1 under overflow checks) panics.
SimdIterWindowsPtr_next(q, l) ==
    IF l = 0 THEN LanePanic(q)
    ELSE IF q.hi - q.lo >= l
    THEN LaneItem(q, [q EXCEPT !.lo = q.lo + l], TRUE, q.lo)
    ELSE IF q.lo < q.hi
    THEN LaneItem(q, [q EXCEPT !.lo = q.lo + 1], FALSE, q.lo)
    ELSE LaneNone(q)

\* next_back() whose batch is anchored at the last index popped instead of
\* the lowest
SimdIterWindowsPtr_next_back_last_anchor(q, l) ==
    IF l = 0 THEN LanePanic(q)
    ELSE IF q.hi - q.lo >= l
    THEN LaneItem(q, [q EXCEPT !.hi = q.hi - l], TRUE, q.hi - 1)
    ELSE IF q.lo < q.hi
    THEN LaneItem(q, [q EXCEPT !.hi = q.hi - 1], FALSE, q.hi - 1)
    ELSE LaneNone(q)

\* SimdIterWindowsPtr::next_back: nth_back(LANES - 1) pops the last LANES
\* indices and returns the lowest of them
SimdIterWindowsPtr_next_back(q, l) ==
    IF l = 0 THEN LanePanic(q)
    ELSE IF q.hi - q.lo >= l
    THEN LaneItem(q, [q EXCEPT !.hi = q.hi - l], TRUE, q.hi - l)
    ELSE IF q.lo < q.hi
    THEN LaneItem(q, [q EXCEPT !.hi = q.hi - 1], FALSE, q.hi - 1)
    ELSE LaneNone(q)

\* the mutable lane sequence: IterPtrMut and SimdIterPtrMut in place of
\* IterPtr and SimdIterPtr
SimdIterWindowsPtrMut_new_unchecked(base, len, slice_stride, iter_stride, n) ==
    SeqReturned(WinSeq(base, len, slice_stride, iter_stride, n))

SimdIterWindowsPtrMut_rows_ptr(img, checks) ==
    IF ~IterPtrMut_assert_slice_enough(img, checks) THEN SeqPanic
    ELSE SimdIterWindowsPtrMut_new_unchecked(img.data, img.width, 1, img.stride, img.height)

SimdIterWindowsPtrMut_cols_ptr(img, checks) ==
    IF ~IterPtrMut_assert_slice_enough(img, checks) THEN SeqPanic
    ELSE LET len == StridedLen(img.stride, img.height, 1)
         IN  IF checks /\ len.ovf THEN SeqPanic
             ELSE SimdIterWindowsPtrMut_new_unchecked(img.data, len.v, img.stride, 1, img.width)

\* SimdIterWindowsMut::rows wraps SimdIterWindowsPtrMut::rows, which calls rows_ptr
SimdIterWindowsMut_rows(img, checks) == SimdIterWindowsPtrMut_rows_ptr(img, checks)

SimdIterWindowsMut_cols(img, checks) == SimdIterWindowsPtrMut_cols_ptr(img, checks)

LaneItemMut(q, q2, simd, index) ==
    LET w  == window(q, index * q.iter_stride)
        it == IterPtrMut_new(w.base, w.len, q.slice_stride)
    IN  IF it.status = "panic" THEN LanePanic(q2)
        ELSE [status |-> "ok", seq |-> q2, simd |-> simd, index |-> index,
              cursor |-> it.cursor, gap |-> IF simd THEN q.iter_stride ELSE 0]

SimdIterWindowsPtrMut_next(q, l) ==
    IF l = 0 THEN LanePanic(q)
    ELSE IF q.hi - q.lo >= l
    THEN LaneItemMut(q, [q EXCEPT !.lo = q.lo + l], TRUE, q.lo)
    ELSE IF q.lo < q.hi
    THEN LaneItemMut(q, [q EXCEPT !.lo = q.lo + 1], FALSE, q.lo)
    ELSE LaneNone(q)

SimdIterWindowsPtrMut_next_back(q, l) ==
    IF l = 0 THEN LanePanic(q)
    ELSE IF q.hi - q.lo >= l
    THEN LaneItemMut(q, [q EXCEPT !.hi = q.hi - l], TRUE, q.hi - l)
    ELSE IF q.lo < q.hi
    THEN LaneItemMut(q, [q EXCEPT !.hi = q.hi - 1], FALSE, q.hi - 1)
    ELSE LaneNone(q)

\* ExactSizeIterator::len of the lane sequence: len / LANES + len % LANES
SimdIterWindowsPtr_len(q, l) ==
    IF l = 0 THEN [status |-> "panic", v |-> 0]
    ELSE [status |-> "ok", v |-> ((q.hi - q.lo) \div l) + ((q.hi - q.lo) % l)]

\* --------------------------------------------------------- the lane group
\* SimdIterPtr<T, LANES>(IterPtr<T>, usize): the wrapped cursor and the gap
Group(iter, gap) == [iter |-> iter, gap |-> gap]

NoGroup == Group(NoCursor, 0)

\* the outcome of a lane group constructor call
GroupPanic == [status |-> "panic", group |-> NoGroup, computed |-> FALSE, ub |-> FALSE]

SimdIterPtr_new(iter, gap) == Group(iter, gap)

\* rows_ptr_unchecked with the gap of the columns, 1
SimdIterPtr_rows_ptr_unchecked_gap1(img, row, checks) ==
    LET r == IterPtr_row_ptr(img, row, checks)
    IN  IF r.status = "panic" THEN GroupPanic
        ELSE [status |-> "ok", group |-> SimdIterPtr_new(r.cursor, 1),
              computed |-> r.computed, ub |-> r.ub]

\* SimdIterPtr::rows_ptr_unchecked: the gap is the stride, the wrapped cursor
\* comes from the checked IterPtr::row_ptr
SimdIterPtr_rows_ptr_unchecked(img, row, checks) ==
    LET r == IterPtr_row_ptr(img, row, checks)
    IN  IF r.status = "panic" THEN GroupPanic
        ELSE [status |-> "ok", group |-> SimdIterPtr_new(r.cursor, img.stride),
              computed |-> r.computed, ub |-> r.ub]

\* SimdIterPtr::<LANES>::rows_ptr: assert!(row + LANES <= buf.height())
SimdIterPtr_rows_ptr(img, row, l, checks) ==
    IF ~assert_slice_enough(img, checks) THEN GroupPanic
    ELSE IF checks /\ Overflows(row + l) THEN GroupPanic
    ELSE IF ~(Wrap(row + l) <= img.height) THEN GroupPanic
    ELSE SimdIterPtr_rows_ptr_unchecked(img, row, checks)

\* SimdIterPtr::cols_ptr_unchecked: the gap is 1, the wrapped cursor comes
\* from the checked IterPtr::col_ptr
SimdIterPtr_cols_ptr_unchecked(img, col, checks) ==
    LET r == IterPtr_col_ptr(img, col, checks)
    IN  IF r.status = "panic" THEN GroupPanic
        ELSE [status |-> "ok", group |-> SimdIterPtr_new(r.cursor, 1),
              computed |-> r.computed, ub |-> r.ub]

\* SimdIterPtr::<LANES>::cols_ptr: assert!(col + LANES <= buf.width())
SimdIterPtr_cols_ptr(img, col, l, checks) ==
    IF ~assert_slice_enough(img, checks) THEN GroupPanic
    ELSE IF checks /\ Overflows(col + l) THEN GroupPanic
    ELSE IF ~(Wrap(col + l) <= img.width) THEN GroupPanic
    ELSE SimdIterPtr_cols_ptr_unchecked(img, col, checks)

\* SimdIter::rows wraps SimdIterPtr::rows, which calls rows_ptr
SimdIter_rows(img, row, l, checks) == SimdIterPtr_rows_ptr(img, row, l, checks)

SimdIter_cols(img, col, l, checks) == SimdIterPtr_cols_ptr(img, col, l, checks)

\* the mutable lane group: IterPtrMut in place of IterPtr
SimdIterPtrMut_rows_ptr_unchecked(img, row, checks) ==
    LET r == IterPtrMut_row_ptr(img, row, checks)
    IN  IF r.status = "panic" THEN GroupPanic
        ELSE [status |-> "ok", group |-> SimdIterPtr_new(r.cursor, img.stride),
              computed |-> r.computed, ub |-> r.ub]

SimdIterPtrMut_rows_ptr(img, row, l, checks) ==
    IF ~IterPtrMut_assert_slice_enough(img, checks) THEN GroupPanic
    ELSE IF checks /\ Overflows(row + l) THEN GroupPanic
    ELSE IF ~(Wrap(row + l) <= img.height) THEN GroupPanic
    ELSE SimdIterPtrMut_rows_ptr_unchecked(img, row, checks)

SimdIterPtrMut_cols_ptr_unchecked(img, col, checks) ==
    LET r == IterPtrMut_col_ptr(img, col, checks)
    IN  IF r.status = "panic" THEN GroupPanic
        ELSE [status |-> "ok", group |-> SimdIterPtr_new(r.cursor, 1),
              computed |-> r.computed, ub |-> r.ub]

SimdIterPtrMut_cols_ptr(img, col, l, checks) ==
    IF ~IterPtrMut_assert_slice_enough(img, checks) THEN GroupPanic
    ELSE IF checks /\ Overflows(col + l) THEN GroupPanic
    ELSE IF ~(Wrap(col + l) <= img.width) THEN GroupPanic
    ELSE SimdIterPtrMut_cols_ptr_unchecked(img, col, checks)

\* expand() with the lanes counted from 1: [a + gap, ..., a + LANES * gap]
expand_from1(g, l, one) == [k \in 1 .. l |-> one + Wrap(g.gap * k)]

\* SimdIterPtr::expand: [one + gap * 0, one + gap * 1, ..., one + gap * (LANES - 1)]
expand(g, l, one) == [k \in 1 .. l |-> one + Wrap(g.gap * (k - 1))]

\* next() that steps the wrapped cursor once per lane
SimdIterPtr_next_per_lane(g, l) ==
    LET r1 == IterPtr_next(g.iter)
        r2 == IterPtr_next(r1.cursor)
    IN  [group |-> Group(IF l >= 2 THEN r2.cursor ELSE r1.cursor, g.gap),
         item |-> IF r1.item = None THEN None ELSE Some(expand(g, l, r1.item[1]))]

\* SimdIterPtr::next: the wrapped cursor's next(), expanded
SimdIterPtr_next(g, l) ==
    LET r == IterPtr_next(g.iter)
    IN  [group |-> Group(r.cursor, g.gap),
         item |-> IF r.item = None THEN None ELSE Some(expand(g, l, r.item[1]))]

\* SimdIterPtr::next_back: the wrapped cursor's next_back(), expanded
SimdIterPtr_next_back(g, l) ==
    LET r == IterPtr_next_back(g.iter)
    IN  [group |-> Group(r.cursor, g.gap),
         item |-> IF r.item = None THEN None ELSE Some(expand(g, l, r.item[1]))]

\* SimdIterPtr::len delegates to the wrapped cursor
SimdIterPtr_len(g, checks) == IterPtr_len(g.iter, checks)

\* ------------------------------------------------------------- the state
VARIABLES
    pc,               \* "start", "live" (a cursor was returned), "windows" (a
                      \* sequence was returned), "accepted" (a check returned),
                      \* "aborted"
    overflow_checks,  \* the build traps arithmetic overflow (debug profile)
    ctor,             \* the constructor that was called
    img,              \* the buffer handed to a row/column constructor
    idx,              \* the row or column index handed to it
    cur,              \* the cursor IterPtr(slice, stride)
    c0,               \* the cursor as constructed
    exhausted,        \* next() or next_back() has returned None
    fwd,              \* the addresses next() has returned, in order
    bwd,              \* the addresses next_back() has returned, in order
    computed,         \* the constructor computed an address from its index
    ub,               \* the constructor offset a pointer out of the backing store
    wseq,             \* the window sequence
    emitted,          \* the windows the sequence has emitted, in order
    run,              \* the run (slice pointer and stride) handed to a run constructor
    lanes,            \* the const parameter LANES of a lane group or lane sequence
    call,             \* the last method called on a window sequence
    grp,              \* the lane group SimdIterPtr(IterPtr, gap)
    gex,              \* the lane group has returned None
    fwdL,             \* the arrays the lane group's next() has returned, in order
    bwdL,             \* the arrays the lane group's next_back() has returned, in order
    plain,            \* one plain cursor per lane, stepped along with the lane group
    pfwd,             \* what the plain cursors' next() returned, step by step
    pbwd,             \* what the plain cursors' next_back() returned, step by step
    safe,             \* the cursor inside the safe wrapper Iter(IterPtr, PhantomData)
    sfwd,             \* the references the wrapper's next() has returned, in order
    sbwd,             \* the references the wrapper's next_back() has returned, in order
    swseq,            \* the sequence inside the safe wrapper IterWindows
    semitted          \* the Iter items the wrapper sequence has emitted, in order

cvars == <<cur, c0, exhausted, fwd, bwd, computed, idx>>
wvars == <<wseq, emitted, call>>
gvars == <<grp, gex, fwdL, bwdL, plain, pfwd, pbwd>>
svars == <<safe, sfwd, sbwd, swseq, semitted>>
vars == <<pc, overflow_checks, ctor, img, ub, run, lanes, cvars, wvars, gvars, svars>>

\* ------------------------------------------------------------- the inputs
\* stride * (height - 1) + width over the integers
Needed(width, height, stride) == stride * (height - 1) + width

\* backing stores from empty up to one element more than the view needs
BufLens(width, height, stride) ==
    {n \in 0 .. (Needed(MaxWidth, MaxHeight, MaxStride) + 1) :
        n <= Needed(width, height, stride) + 1}

\* every Img<*const [T]> a caller can hand over
Imgs ==
    {Img(BufBase, n, w, h, s) :
        n \in 0 .. (Needed(MaxWidth, MaxHeight, MaxStride) + 1),
        w \in 0 .. MaxWidth, h \in 0 .. MaxHeight, s \in 1 .. MaxStride}

RawImgs == {i \in Imgs : i.buflen \in BufLens(i.width, i.height, i.stride)}

\* an Img<S> over a container, as imgref builds it: width <= stride
ContainerImgs == {i \in RawImgs : i.width <= i.stride}

Init ==
    /\ pc = "start"
    /\ overflow_checks \in BOOLEAN
    /\ ctor = "none"
    /\ img = NoImg
    /\ idx = 0
    /\ cur = NoCursor
    /\ c0 = NoCursor
    /\ exhausted = FALSE
    /\ fwd = <<>>
    /\ bwd = <<>>
    /\ computed = FALSE
    /\ ub = FALSE
    /\ wseq = NoSeq
    /\ emitted = <<>>
    /\ run = NoCursor
    /\ lanes = 0
    /\ call = "none"
    /\ grp = NoGroup
    /\ gex = FALSE
    /\ fwdL = <<>>
    /\ bwdL = <<>>
    /\ plain = <<>>
    /\ pfwd = <<>>
    /\ pbwd = <<>>
    /\ safe = NoCursor
    /\ sfwd = <<>>
    /\ sbwd = <<>>
    /\ swseq = NoSeq
    /\ semitted = <<>>

\* a constructor call with outcome r; an out-of-store offset is undefined
\* behaviour, after which the call may return or trap
ConstructOn(name, r, im, i, rn) ==
    /\ pc = "start"
    /\ ctor' = name
    /\ img' = im
    /\ idx' = i
    /\ run' = rn
    /\ computed' = r.computed
    /\ ub' = r.ub
    /\ \E outcome \in (IF r.ub THEN {"ok", "panic"} ELSE {r.status}) :
          IF outcome = "ok"
          THEN pc' = "live" /\ cur' = r.cursor /\ c0' = r.cursor
          ELSE pc' = "aborted" /\ cur' = NoCursor /\ c0' = NoCursor
    /\ UNCHANGED <<svars, overflow_checks, exhausted, fwd, bwd, lanes, wvars, gvars>>

\* a constructor call on a buffer and an index
Construct(name, r, im, i) == ConstructOn(name, r, im, i, NoCursor)

\* a constructor call on a run: the slice (BufBase, len) and the stride
ConstructRun(name, r, len, stride) ==
    ConstructOn(name, r, NoImg, 0, Cursor(BufBase, len, stride))

New ==
    /\ pc = "start"
    /\ \E len \in 0 .. MaxCount, stride \in 0 .. MaxStride :
            ConstructRun("IterPtr::new", IterPtr_new(BufBase, len, stride), len, stride)

NewUnchecked ==
    /\ pc = "start"
    /\ \E len \in 0 .. MaxCount, stride \in 1 .. MaxStride :
            ConstructRun("IterPtr::new_unchecked",
                         IterPtr_new_unchecked(BufBase, len, stride), len, stride)

IterNewPtr ==
    /\ pc = "start"
    /\ \E len \in 0 .. MaxCount, stride \in 0 .. MaxStride :
            ConstructRun("Iter::new_ptr", Iter_new_ptr(BufBase, len, stride), len, stride)

IterNewPtrUnchecked ==
    /\ pc = "start"
    /\ \E len \in 0 .. MaxCount, stride \in 1 .. MaxStride :
            ConstructRun("Iter::new_ptr_unchecked",
                         Iter_new_ptr_unchecked(BufBase, len, stride), len, stride)

NewSlice ==
    /\ pc = "start"
    /\ \E len \in 0 .. MaxCount, stride \in 0 .. MaxStride :
            ConstructRun("IterPtr::new_slice", IterPtr_new_slice(BufBase, len, stride), len, stride)

NewSliceUnchecked ==
    /\ pc = "start"
    /\ \E len \in 0 .. MaxCount, stride \in 1 .. MaxStride :
            ConstructRun("IterPtr::new_slice_unchecked", IterPtr_new_slice_unchecked(BufBase, len, stride), len, stride)

IterNew ==
    /\ pc = "start"
    /\ \E len \in 0 .. MaxCount, stride \in 0 .. MaxStride :
            ConstructRun("Iter::new", Iter_new(BufBase, len, stride), len, stride)

IterNewUnchecked ==
    /\ pc = "start"
    /\ \E len \in 0 .. MaxCount, stride \in 1 .. MaxStride :
            ConstructRun("Iter::new_unchecked", Iter_new_unchecked(BufBase, len, stride), len, stride)

NewMut ==
    /\ pc = "start"
    /\ \E len \in 0 .. MaxCount, stride \in 0 .. MaxStride :
            ConstructRun("IterPtrMut::new", IterPtrMut_new(BufBase, len, stride), len, stride)

NewMutUnchecked ==
    /\ pc = "start"
    /\ \E len \in 0 .. MaxCount, stride \in 1 .. MaxStride :
            ConstructRun("IterPtrMut::new_unchecked", IterPtrMut_new_unchecked(BufBase, len, stride), len, stride)

NewSliceMut ==
    /\ pc = "start"
    /\ \E len \in 0 .. MaxCount, stride \in 0 .. MaxStride :
            ConstructRun("IterPtrMut::new_slice", IterPtrMut_new_slice(BufBase, len, stride), len, stride)

NewSliceMutUnchecked ==
    /\ pc = "start"
    /\ \E len \in 0 .. MaxCount, stride \in 1 .. MaxStride :
            ConstructRun("IterPtrMut::new_slice_unchecked", IterPtrMut_new_slice_unchecked(BufBase, len, stride), len, stride)

IterMutNewPtr ==
    /\ pc = "start"
    /\ \E len \in 0 .. MaxCount, stride \in 0 .. MaxStride :
            ConstructRun("IterMut::new_ptr", IterMut_new_ptr(BufBase, len, stride), len, stride)

IterMutNewPtrUnchecked ==
    /\ pc = "start"
    /\ \E len \in 0 .. MaxCount, stride \in 1 .. MaxStride :
            ConstructRun("IterMut::new_ptr_unchecked", IterMut_new_ptr_unchecked(BufBase, len, stride), len, stride)

IterMutNew ==
    /\ pc = "start"
    /\ \E len \in 0 .. MaxCount, stride \in 0 .. MaxStride :
            ConstructRun("IterMut::new", IterMut_new(BufBase, len, stride), len, stride)

IterMutNewUnchecked ==
    /\ pc = "start"
    /\ \E len \in 0 .. MaxCount, stride \in 1 .. MaxStride :
            ConstructRun("IterMut::new_unchecked", IterMut_new_unchecked(BufBase, len, stride), len, stride)

RowPtr ==
    /\ pc = "start"
    /\ \E im \in RawImgs, row \in 0 .. MaxHeight :
            Construct("IterPtr::row_ptr", IterPtr_row_ptr(im, row, overflow_checks), im, row)

RowPtrUnchecked ==
    /\ pc = "start"
    /\ \E im \in RawImgs, row \in 0 .. MaxHeight :
            /\ row < im.height
            /\ Construct("IterPtr::row_ptr_unchecked",
                         IterPtr_row_ptr_unchecked(im, row, overflow_checks), im, row)

ColPtr ==
    /\ pc = "start"
    /\ \E im \in RawImgs, col \in 0 .. MaxWidth :
            Construct("IterPtr::col_ptr", IterPtr_col_ptr(im, col, overflow_checks), im, col)

ColPtrUnchecked ==
    /\ pc = "start"
    /\ \E im \in RawImgs, col \in 0 .. MaxWidth :
            /\ col < im.width
            /\ Construct("IterPtr::col_ptr_unchecked",
                         IterPtr_col_ptr_unchecked(im, col, overflow_checks), im, col)

IterRowPtr ==
    /\ pc = "start"
    /\ \E im \in RawImgs, row \in 0 .. MaxHeight :
            Construct("Iter::row_ptr", Iter_row_ptr(im, row, overflow_checks), im, row)

IterColPtr ==
    /\ pc = "start"
    /\ \E im \in RawImgs, col \in 0 .. MaxWidth :
            Construct("Iter::col_ptr", Iter_col_ptr(im, col, overflow_checks), im, col)

IterRow ==
    /\ pc = "start"
    /\ \E im \in ContainerImgs, row \in 0 .. MaxHeight :
            Construct("Iter::row", Iter_row(im, row, overflow_checks), im, row)

IterCol ==
    /\ pc = "start"
    /\ \E im \in ContainerImgs, col \in 0 .. MaxWidth :
            Construct("Iter::col", Iter_col(im, col, overflow_checks), im, col)

RowPtrMut ==
    /\ pc = "start"
    /\ \E im \in RawImgs, row \in 0 .. MaxHeight :
            Construct("IterPtrMut::row_ptr", IterPtrMut_row_ptr(im, row, overflow_checks), im, row)

ColPtrMut ==
    /\ pc = "start"
    /\ \E im \in RawImgs, col \in 0 .. MaxWidth :
            Construct("IterPtrMut::col_ptr", IterPtrMut_col_ptr(im, col, overflow_checks), im, col)

IterMutRow ==
    /\ pc = "start"
    /\ \E im \in ContainerImgs, row \in 0 .. MaxHeight :
            Construct("IterMut::row", IterMut_row(im, row, overflow_checks), im, row)

IterMutCol ==
    /\ pc = "start"
    /\ \E im \in ContainerImgs, col \in 0 .. MaxWidth :
            Construct("IterMut::col", IterMut_col(im, col, overflow_checks), im, col)

\* a sequence constructor call with outcome r
ConstructSeqOn(name, r, im, rn, l) ==
    /\ pc = "start"
    /\ ctor' = name
    /\ img' = im
    /\ run' = rn
    /\ lanes' = l
    /\ IF r.status = "ok"
       THEN pc' = "windows" /\ wseq' = r.seq
       ELSE pc' = "aborted" /\ wseq' = NoSeq
    /\ UNCHANGED <<svars, overflow_checks, ub, emitted, call, cvars, gvars>>

\* a plain sequence over a buffer
ConstructSeq(name, r, im) == ConstructSeqOn(name, r, im, NoCursor, 0)

\* IterWindowsPtr::new(slice, slice_stride, iter_stride, len)
WindowsNew ==
    /\ pc = "start"
    /\ \E len \in 0 .. MaxCount, ss \in 0 .. MaxStride, is \in 1 .. MaxStride, n \in 0 .. MaxHeight :
            ConstructSeqOn("IterWindowsPtr::new", IterWindowsPtr_new(BufBase, len, ss, is, n),
                           NoImg, Cursor(BufBase, len, ss), 0)

WindowsNewMut ==
    /\ pc = "start"
    /\ \E len \in 0 .. MaxCount, ss \in 0 .. MaxStride, is \in 1 .. MaxStride, n \in 0 .. MaxHeight :
            ConstructSeqOn("IterWindowsPtrMut::new", IterWindowsPtrMut_new(BufBase, len, ss, is, n),
                           NoImg, Cursor(BufBase, len, ss), 0)

\* SimdIterWindowsPtr::<LANES>::new(slice, slice_stride, iter_stride, len)
SimdWindowsNew ==
    /\ pc = "start"
    /\ \E len \in 0 .. MaxCount, ss \in 0 .. MaxStride, is \in 1 .. MaxStride,
          n \in 0 .. MaxIndices, l \in 0 .. MaxLanes :
            ConstructSeqOn("SimdIterWindowsPtr::new", SimdIterWindowsPtr_new(BufBase, len, ss, is, n),
                           NoImg, Cursor(BufBase, len, ss), l)

\* a stride so large that stride * 2 does not fit in usize
HugeStride == Modulus \div 2

\* the buffers handed to assert_slice_enough: those of the constructors and
\* some with a huge stride
AssertImgs ==
    RawImgs \cup {Img(BufBase, n, w, h, HugeStride) :
                     n \in 0 .. 2, w \in 0 .. 1, h \in 1 .. MaxHeight}

\* a call of IterPtr::assert_slice_enough(img): it returns or it panics
AssertSliceEnough ==
    /\ pc = "start"
    /\ \E im \in AssertImgs :
            /\ ctor' = "IterPtr::assert_slice_enough"
            /\ img' = im
            /\ pc' = (IF assert_slice_enough(im, overflow_checks) THEN "accepted" ELSE "aborted")
    /\ UNCHANGED <<svars, overflow_checks, ub, run, lanes, cvars, wvars, gvars>>

\* the number of addresses returned so far
Yields == Len(fwd) + Len(bwd)

\* a call of cursor.next()
Next_ ==
    /\ pc = "live"
    /\ cur.len = 0 \/ Yields < MaxSteps
    /\ LET r == IterPtr_next(cur)
       IN  /\ cur' = r.cursor
           /\ fwd' = fwd \o r.item
           /\ exhausted' = (exhausted \/ r.item = None)
    /\ UNCHANGED <<svars, pc, overflow_checks, ctor, img, idx, c0, bwd, computed, ub, run, lanes,
                   wvars, gvars>>

\* a call of cursor.next_back()
NextBack ==
    /\ pc = "live"
    /\ cur.len = 0 \/ Yields < MaxSteps
    /\ LET r == IterPtr_next_back(cur)
       IN  /\ cur' = r.cursor
           /\ bwd' = bwd \o r.item
           /\ exhausted' = (exhausted \/ r.item = None)
    /\ UNCHANGED <<svars, pc, overflow_checks, ctor, img, idx, c0, fwd, computed, ub, run, lanes,
                   wvars, gvars>>

\* a call of cursor.len() (size_hint() returns it as both bounds): it reads the
\* cursor only, and aborts the run when its arithmetic panics
LenCall ==
    /\ pc = "live"
    /\ pc' = (IF IterPtr_len(cur, overflow_checks).status = "ok" THEN pc ELSE "aborted")
    /\ UNCHANGED <<svars, overflow_checks, ctor, img, ub, run, lanes, cvars, wvars, gvars>>

Next ==
    \/ New
    \/ NewUnchecked
    \/ IterNewPtr
    \/ IterNewPtrUnchecked
    \/ NewSlice
    \/ NewSliceUnchecked
    \/ IterNew
    \/ IterNewUnchecked
    \/ NewMut
    \/ NewMutUnchecked
    \/ NewSliceMut
    \/ NewSliceMutUnchecked
    \/ IterMutNewPtr
    \/ IterMutNewPtrUnchecked
    \/ IterMutNew
    \/ IterMutNewUnchecked
    \/ WindowsNew
    \/ WindowsNewMut
    \/ SimdWindowsNew
    \/ RowPtr
    \/ RowPtrUnchecked
    \/ ColPtr
    \/ ColPtrUnchecked
    \/ IterRowPtr
    \/ IterColPtr
    \/ IterRow
    \/ IterCol
    \/ RowPtrMut
    \/ ColPtrMut
    \/ IterMutRow
    \/ IterMutCol
    \/ AssertSliceEnough
    \/ Next_
    \/ NextBack
    \/ LenCall

Spec == Init /\ [][Next]_vars

\* ---------------------------------------------- the window sequences run
RowsPtr ==
    /\ pc = "start"
    /\ \E im \in RawImgs :
            ConstructSeq("IterWindowsPtr::rows_ptr", IterWindowsPtr_rows_ptr(im, overflow_checks), im)

ColsPtr ==
    /\ pc = "start"
    /\ \E im \in RawImgs :
            ConstructSeq("IterWindowsPtr::cols_ptr", IterWindowsPtr_cols_ptr(im, overflow_checks), im)

Rows ==
    /\ pc = "start"
    /\ \E im \in ContainerImgs :
            ConstructSeq("IterWindows::rows", IterWindows_rows(im, overflow_checks), im)

Cols ==
    /\ pc = "start"
    /\ \E im \in ContainerImgs :
            ConstructSeq("IterWindows::cols", IterWindows_cols(im, overflow_checks), im)

SimdRowsPtr ==
    /\ pc = "start"
    /\ \E im \in RawImgs, l \in 0 .. MaxLanes :
            ConstructSeqOn("SimdIterWindowsPtr::rows_ptr",
                           SimdIterWindowsPtr_rows_ptr(im, overflow_checks), im, NoCursor, l)

SimdColsPtr ==
    /\ pc = "start"
    /\ \E im \in RawImgs, l \in 0 .. MaxLanes :
            ConstructSeqOn("SimdIterWindowsPtr::cols_ptr",
                           SimdIterWindowsPtr_cols_ptr(im, overflow_checks), im, NoCursor, l)

RowsMut ==
    /\ pc = "start"
    /\ \E im \in ContainerImgs :
            ConstructSeq("IterWindowsMut::rows", IterWindowsMut_rows(im, overflow_checks), im)

ColsMut ==
    /\ pc = "start"
    /\ \E im \in ContainerImgs :
            ConstructSeq("IterWindowsMut::cols", IterWindowsMut_cols(im, overflow_checks), im)

SimdRowsMut ==
    /\ pc = "start"
    /\ \E im \in ContainerImgs, l \in 0 .. MaxLanes :
            ConstructSeqOn("SimdIterWindowsMut::rows",
                           SimdIterWindowsMut_rows(im, overflow_checks), im, NoCursor, l)

SimdColsMut ==
    /\ pc = "start"
    /\ \E im \in ContainerImgs, l \in 0 .. MaxLanes :
            ConstructSeqOn("SimdIterWindowsMut::cols",
                           SimdIterWindowsMut_cols(im, overflow_checks), im, NoCursor, l)

\* the sequences of write-capable cursors
MutSeqCtors ==
    {"IterWindowsPtrMut::new", "IterWindowsMut::rows", "IterWindowsMut::cols",
     "SimdIterWindowsMut::rows", "SimdIterWindowsMut::cols"}

PlainSeqCtors ==
    {"IterWindowsPtr::rows_ptr", "IterWindowsPtr::cols_ptr", "IterWindows::rows", "IterWindows::cols"}

\* the plain sequences that are stepped: those over a buffer and those built
\* from a first window
SteppedSeqCtors ==
    PlainSeqCtors \cup {"IterWindowsPtr::new", "IterWindowsPtrMut::new",
                        "IterWindowsMut::rows", "IterWindowsMut::cols"}

LaneSeqCtors ==
    {"SimdIterWindowsPtr::rows_ptr", "SimdIterWindowsPtr::cols_ptr", "SimdIterWindowsPtr::new",
     "SimdIterWindowsMut::rows", "SimdIterWindowsMut::cols"}

\* one step of a plain sequence with outcome r, taken at the given end
WinStep(r, end) ==
    /\ pc = "windows"
    /\ ctor \in SteppedSeqCtors
    /\ wseq' = r.seq
    /\ call' = (IF end = "front" THEN "next" ELSE "next_back")
    /\ IF r.index = None
       THEN pc' = pc /\ emitted' = emitted
       ELSE IF r.item.status = "ok"
       THEN pc' = pc /\ emitted' = Append(emitted, [end |-> end, index |-> r.index[1], cursor |-> r.item.cursor])
       ELSE pc' = "aborted" /\ emitted' = emitted
    /\ UNCHANGED <<svars, overflow_checks, ctor, img, ub, run, lanes, cvars, gvars>>

WinNext ==
    WinStep(IF ctor \in MutSeqCtors THEN IterWindowsPtrMut_next(wseq)
            ELSE IterWindowsPtr_next(wseq), "front")

WinNextBack ==
    WinStep(IF ctor \in MutSeqCtors THEN IterWindowsPtrMut_next_back(wseq)
            ELSE IterWindowsPtr_next_back(wseq), "back")

\* one step of a lane sequence with outcome r, taken at the given end
LaneStep(r, end) ==
    /\ pc = "windows"
    /\ ctor \in LaneSeqCtors
    /\ wseq' = r.seq
    /\ call' = (IF end = "front" THEN "next" ELSE "next_back")
    /\ pc' = (IF r.status = "panic" THEN "aborted" ELSE pc)
    /\ emitted' = (IF r.status = "ok"
                   THEN Append(emitted, [end |-> end, simd |-> r.simd, index |-> r.index,
                                         cursor |-> r.cursor, gap |-> r.gap])
                   ELSE emitted)
    /\ UNCHANGED <<svars, overflow_checks, ctor, img, ub, run, lanes, cvars, gvars>>

LaneNext ==
    LaneStep(IF ctor \in MutSeqCtors THEN SimdIterWindowsPtrMut_next(wseq, lanes)
             ELSE SimdIterWindowsPtr_next(wseq, lanes), "front")

LaneNextBack ==
    LaneStep(IF ctor \in MutSeqCtors THEN SimdIterWindowsPtrMut_next_back(wseq, lanes)
             ELSE SimdIterWindowsPtr_next_back(wseq, lanes), "back")

\* a call of len() on a sequence (size_hint() returns it as both bounds)
WinLen ==
    /\ pc = "windows"
    /\ call' = "len"
    /\ pc' = (IF ctor \in LaneSeqCtors /\ SimdIterWindowsPtr_len(wseq, lanes).status = "panic"
              THEN "aborted" ELSE pc)
    /\ UNCHANGED <<svars, overflow_checks, ctor, img, ub, run, lanes, wseq, emitted, cvars, gvars>>

InitWin == Init

NextWin ==
    \/ RowsPtr
    \/ ColsPtr
    \/ Rows
    \/ Cols
    \/ SimdRowsPtr
    \/ SimdColsPtr
    \/ WindowsNew
    \/ WindowsNewMut
    \/ SimdWindowsNew
    \/ RowsMut
    \/ ColsMut
    \/ SimdRowsMut
    \/ SimdColsMut
    \/ WinNext
    \/ WinNextBack
    \/ LaneNext
    \/ LaneNextBack
    \/ WinLen

SpecWin == InitWin /\ [][NextWin]_vars

\* -------------------------------------------------- the lane groups run
\* the row and column indices a caller passes: in range, past the end, and
\* the largest usize
LaneIndices(ext) == (0 .. (ext + 1)) \cup {Modulus - 1}

\* the plain cursors of rows row, row + 1, ..., row + l - 1
PlainRows(im, row, l, checks) ==
    [k \in 1 .. l |-> IterPtr_row_ptr(im, row + (k - 1), checks).cursor]

\* the plain cursors of columns col, col + 1, ..., col + l - 1
PlainCols(im, col, l, checks) ==
    [k \in 1 .. l |-> IterPtr_col_ptr(im, col + (k - 1), checks).cursor]

\* a lane group constructor call with outcome r; pl are the plain cursors of
\* the rows or columns the lanes stand for
ConstructGroup(name, r, im, i, rn, l, pl) ==
    /\ pc = "start"
    /\ ctor' = name
    /\ img' = im
    /\ idx' = i
    /\ run' = rn
    /\ lanes' = l
    /\ computed' = r.computed
    /\ ub' = r.ub
    /\ \E outcome \in (IF r.ub THEN {"ok", "panic"} ELSE {r.status}) :
          IF outcome = "ok"
          THEN /\ pc' = "live"
               /\ grp' = r.group
               /\ cur' = r.group.iter
               /\ c0' = r.group.iter
               /\ plain' = pl
          ELSE /\ pc' = "aborted"
               /\ grp' = NoGroup
               /\ cur' = NoCursor
               /\ c0' = NoCursor
               /\ plain' = <<>>
    /\ UNCHANGED <<svars, overflow_checks, exhausted, fwd, bwd, wvars, gex, fwdL, bwdL, pfwd, pbwd>>

\* SimdIterPtr::<LANES>::new(iter, gap) over any cursor
SimdNew ==
    /\ pc = "start"
    /\ \E len \in 0 .. MaxCount, stride \in 1 .. MaxStride, gap \in 0 .. MaxStride,
          l \in 0 .. MaxLanes :
            LET c == IterPtr_new_unchecked(BufBase, len, stride).cursor
            IN  ConstructGroup("SimdIterPtr::new",
                               [status |-> "ok", group |-> SimdIterPtr_new(c, gap),
                                computed |-> FALSE, ub |-> FALSE],
                               NoImg, 0, c, l, <<>>)

SimdRowsPtrGroup ==
    /\ pc = "start"
    /\ \E im \in RawImgs, l \in 0 .. MaxLanes :
       \E row \in LaneIndices(im.height) :
            ConstructGroup("SimdIterPtr::rows_ptr",
                           SimdIterPtr_rows_ptr(im, row, l, overflow_checks),
                           im, row, NoCursor, l, PlainRows(im, row, l, overflow_checks))

SimdColsPtrGroup ==
    /\ pc = "start"
    /\ \E im \in RawImgs, l \in 0 .. MaxLanes :
       \E col \in LaneIndices(im.width) :
            ConstructGroup("SimdIterPtr::cols_ptr",
                           SimdIterPtr_cols_ptr(im, col, l, overflow_checks),
                           im, col, NoCursor, l, PlainCols(im, col, l, overflow_checks))

\* the unchecked constructors, called as their contract asks: the lanes in range
SimdRowsPtrUncheckedGroup ==
    /\ pc = "start"
    /\ \E im \in RawImgs, l \in 0 .. MaxLanes :
       \E row \in {i \in 0 .. im.height : i + l <= im.height} :
            ConstructGroup("SimdIterPtr::rows_ptr_unchecked",
                           SimdIterPtr_rows_ptr_unchecked(im, row, overflow_checks),
                           im, row, NoCursor, l, PlainRows(im, row, l, overflow_checks))

SimdColsPtrUncheckedGroup ==
    /\ pc = "start"
    /\ \E im \in RawImgs, l \in 0 .. MaxLanes :
       \E col \in {i \in 0 .. im.width : i + l <= im.width} :
            ConstructGroup("SimdIterPtr::cols_ptr_unchecked",
                           SimdIterPtr_cols_ptr_unchecked(im, col, overflow_checks),
                           im, col, NoCursor, l, PlainCols(im, col, l, overflow_checks))

SimdRowsGroup ==
    /\ pc = "start"
    /\ \E im \in ContainerImgs, l \in 0 .. MaxLanes :
       \E row \in LaneIndices(im.height) :
            ConstructGroup("SimdIter::rows",
                           SimdIter_rows(im, row, l, overflow_checks),
                           im, row, NoCursor, l, PlainRows(im, row, l, overflow_checks))

SimdColsGroup ==
    /\ pc = "start"
    /\ \E im \in ContainerImgs, l \in 0 .. MaxLanes :
       \E col \in LaneIndices(im.width) :
            ConstructGroup("SimdIter::cols",
                           SimdIter_cols(im, col, l, overflow_checks),
                           im, col, NoCursor, l, PlainCols(im, col, l, overflow_checks))

SimdRowsPtrMutGroup ==
    /\ pc = "start"
    /\ \E im \in RawImgs, l \in 0 .. MaxLanes :
       \E row \in LaneIndices(im.height) :
            ConstructGroup("SimdIterPtrMut::rows_ptr",
                           SimdIterPtrMut_rows_ptr(im, row, l, overflow_checks),
                           im, row, NoCursor, l, PlainRows(im, row, l, overflow_checks))

SimdColsPtrMutGroup ==
    /\ pc = "start"
    /\ \E im \in RawImgs, l \in 0 .. MaxLanes :
       \E col \in LaneIndices(im.width) :
            ConstructGroup("SimdIterPtrMut::cols_ptr",
                           SimdIterPtrMut_cols_ptr(im, col, l, overflow_checks),
                           im, col, NoCursor, l, PlainCols(im, col, l, overflow_checks))

\* the sequences of calls a caller makes on a lane sequence of n indices
SeqCalls(n) == UNION {[1 .. m -> {"front", "back"}] : m \in 1 .. n}

\* the outcome of the last of the given calls on a lane sequence
RECURSIVE LaneRun(_, _, _)
LaneRun(q, l, calls) ==
    LET r == IF Head(calls) = "front"
             THEN SimdIterWindowsPtr_next(q, l)
             ELSE SimdIterWindowsPtr_next_back(q, l)
    IN  IF Len(calls) = 1 \/ r.status # "ok" THEN r ELSE LaneRun(r.seq, l, Tail(calls))

\* the item a lane sequence over the rows returns after some calls, when it
\* is SimdIterWindowPtr::Simd: its lane group is the one stepped from here on
RowsBatch ==
    /\ pc = "start"
    /\ \E im \in RawImgs, l \in 0 .. MaxLanes :
       \E calls \in SeqCalls(im.height) :
            LET s == SimdIterWindowsPtr_rows_ptr(im, overflow_checks)
                r == LaneRun(s.seq, l, calls)
            IN  /\ s.status = "ok"
                /\ r.status = "ok"
                /\ r.simd
                /\ ConstructGroup("SimdIterWindowsPtr::rows_ptr",
                                  [status |-> "ok", group |-> SimdIterPtr_new(r.cursor, r.gap),
                                   computed |-> FALSE, ub |-> FALSE],
                                  im, r.index, NoCursor, l,
                                  PlainRows(im, r.index, l, overflow_checks))

ColsBatch ==
    /\ pc = "start"
    /\ \E im \in RawImgs, l \in 0 .. MaxLanes :
       \E calls \in SeqCalls(im.width) :
            LET s == SimdIterWindowsPtr_cols_ptr(im, overflow_checks)
                r == LaneRun(s.seq, l, calls)
            IN  /\ s.status = "ok"
                /\ r.status = "ok"
                /\ r.simd
                /\ ConstructGroup("SimdIterWindowsPtr::cols_ptr",
                                  [status |-> "ok", group |-> SimdIterPtr_new(r.cursor, r.gap),
                                   computed |-> FALSE, ub |-> FALSE],
                                  im, r.index, NoCursor, l,
                                  PlainCols(im, r.index, l, overflow_checks))

\* the number of arrays returned so far
GroupYields == Len(fwdL) + Len(bwdL)

\* a call of group.next(); the wrapped cursor's copy and the plain cursors
\* take the same step
GroupNext ==
    /\ pc = "live"
    /\ grp.iter.len = 0 \/ GroupYields < MaxSteps
    /\ LET r == SimdIterPtr_next(grp, lanes)
           s == IterPtr_next(cur)
           ps == [k \in 1 .. Len(plain) |-> IterPtr_next(plain[k])]
       IN  /\ grp' = r.group
           /\ fwdL' = fwdL \o r.item
           /\ gex' = (gex \/ r.item = None)
           /\ cur' = s.cursor
           /\ fwd' = fwd \o s.item
           /\ exhausted' = (exhausted \/ s.item = None)
           /\ plain' = [k \in 1 .. Len(plain) |-> ps[k].cursor]
           /\ pfwd' = (IF r.item = None /\ \A k \in 1 .. Len(plain) : ps[k].item = None
                       THEN pfwd
                       ELSE Append(pfwd, [k \in 1 .. Len(plain) |-> ps[k].item]))
    /\ UNCHANGED <<svars, pc, overflow_checks, ctor, img, idx, c0, bwd, computed, ub, run, lanes,
                   wvars, bwdL, pbwd>>

\* a call of group.next_back()
GroupNextBack ==
    /\ pc = "live"
    /\ grp.iter.len = 0 \/ GroupYields < MaxSteps
    /\ LET r == SimdIterPtr_next_back(grp, lanes)
           s == IterPtr_next_back(cur)
           ps == [k \in 1 .. Len(plain) |-> IterPtr_next_back(plain[k])]
       IN  /\ grp' = r.group
           /\ bwdL' = bwdL \o r.item
           /\ gex' = (gex \/ r.item = None)
           /\ cur' = s.cursor
           /\ bwd' = bwd \o s.item
           /\ exhausted' = (exhausted \/ s.item = None)
           /\ plain' = [k \in 1 .. Len(plain) |-> ps[k].cursor]
           /\ pbwd' = (IF r.item = None /\ \A k \in 1 .. Len(plain) : ps[k].item = None
                       THEN pbwd
                       ELSE Append(pbwd, [k \in 1 .. Len(plain) |-> ps[k].item]))
    /\ UNCHANGED <<svars, pc, overflow_checks, ctor, img, idx, c0, fwd, computed, ub, run, lanes,
                   wvars, fwdL, pfwd>>

\* a call of group.len(): it reads the group only, and aborts the run when
\* its arithmetic panics
GroupLen ==
    /\ pc = "live"
    /\ pc' = (IF SimdIterPtr_len(grp, overflow_checks).status = "ok" THEN pc ELSE "aborted")
    /\ UNCHANGED <<svars, overflow_checks, ctor, img, ub, run, lanes, cvars, wvars, gvars>>

\* ---------------------------------------------- the safe wrappers run
\* a safe wrapper and the pointer cursor built over the same buffer and
\* index, with outcomes s and p
ConstructPair(name, p, s, im, i) ==
    /\ pc = "start"
    /\ ctor' = name
    /\ img' = im
    /\ idx' = i
    /\ computed' = (p.computed \/ s.computed)
    /\ ub' = (p.ub \/ s.ub)
    /\ \E po \in (IF p.ub THEN {"ok", "panic"} ELSE {p.status}),
          so \in (IF s.ub THEN {"ok", "panic"} ELSE {s.status}) :
            /\ pc' = (IF po = "ok" /\ so = "ok" THEN "live" ELSE "aborted")
            /\ cur' = (IF po = "ok" THEN p.cursor ELSE NoCursor)
            /\ c0' = (IF po = "ok" THEN p.cursor ELSE NoCursor)
            /\ safe' = (IF so = "ok" THEN s.cursor ELSE NoCursor)
    /\ UNCHANGED <<overflow_checks, exhausted, fwd, bwd, run, lanes, wvars, gvars,
                   sfwd, sbwd, swseq, semitted>>

SafeRow ==
    /\ pc = "start"
    /\ \E im \in ContainerImgs, row \in 0 .. MaxHeight :
            ConstructPair("Iter::row and IterPtr::row",
                          IterPtr_row_ptr(im, row, overflow_checks),
                          Iter_row(im, row, overflow_checks), im, row)

SafeCol ==
    /\ pc = "start"
    /\ \E im \in ContainerImgs, col \in 0 .. MaxWidth :
            ConstructPair("Iter::col and IterPtr::col",
                          IterPtr_col_ptr(im, col, overflow_checks),
                          Iter_col(im, col, overflow_checks), im, col)

\* a safe sequence and the pointer sequence built over the same buffer
ConstructSeqPair(name, p, s, im) ==
    /\ pc = "start"
    /\ ctor' = name
    /\ img' = im
    /\ pc' = (IF p.status = "ok" /\ s.status = "ok" THEN "windows" ELSE "aborted")
    /\ wseq' = p.seq
    /\ swseq' = s.seq
    /\ UNCHANGED <<overflow_checks, ub, run, lanes, emitted, call, cvars, gvars,
                   safe, sfwd, sbwd, semitted>>

SafeRows ==
    /\ pc = "start"
    /\ \E im \in ContainerImgs :
            ConstructSeqPair("IterWindows::rows and IterWindowsPtr::rows",
                             IterWindowsPtr_rows_ptr(im, overflow_checks),
                             IterWindows_rows(im, overflow_checks), im)

SafeCols ==
    /\ pc = "start"
    /\ \E im \in ContainerImgs :
            ConstructSeqPair("IterWindows::cols and IterWindowsPtr::cols",
                             IterWindowsPtr_cols_ptr(im, overflow_checks),
                             IterWindows_cols(im, overflow_checks), im)

\* next() on the wrapper and on the pointer cursor
SafeNext ==
    /\ pc = "live"
    /\ cur.len = 0 \/ Yields < MaxSteps
    /\ LET r == IterPtr_next(cur)
           s == Iter_next(safe)
       IN  /\ cur' = r.cursor
           /\ fwd' = fwd \o r.item
           /\ exhausted' = (exhausted \/ r.item = None)
           /\ safe' = s.cursor
           /\ sfwd' = sfwd \o s.item
    /\ UNCHANGED <<pc, overflow_checks, ctor, img, idx, c0, bwd, computed, ub, run, lanes,
                   wvars, gvars, sbwd, swseq, semitted>>

\* next_back() on the wrapper and on the pointer cursor
SafeNextBack ==
    /\ pc = "live"
    /\ cur.len = 0 \/ Yields < MaxSteps
    /\ LET r == IterPtr_next_back(cur)
           s == Iter_next_back(safe)
       IN  /\ cur' = r.cursor
           /\ bwd' = bwd \o r.item
           /\ exhausted' = (exhausted \/ r.item = None)
           /\ safe' = s.cursor
           /\ sbwd' = sbwd \o s.item
    /\ UNCHANGED <<pc, overflow_checks, ctor, img, idx, c0, fwd, computed, ub, run, lanes,
                   wvars, gvars, sfwd, swseq, semitted>>

\* len() on the wrapper and on the pointer cursor
SafeLen ==
    /\ pc = "live"
    /\ pc' = (IF /\ IterPtr_len(cur, overflow_checks).status = "ok"
                 /\ Iter_len(safe, overflow_checks).status = "ok"
              THEN pc ELSE "aborted")
    /\ UNCHANGED <<overflow_checks, ctor, img, ub, run, lanes, cvars, wvars, gvars, svars>>

\* one step of the wrapper sequence (outcome s) and of the pointer sequence
\* (outcome r) at the given end
SafeWinStep(r, s, end) ==
    /\ pc = "windows"
    /\ wseq' = r.seq
    /\ swseq' = s.seq
    /\ call' = (IF end = "front" THEN "next" ELSE "next_back")
    /\ pc' = (IF (r.index # None /\ r.item.status # "ok") \/ (s.index # None /\ s.status # "ok")
              THEN "aborted" ELSE pc)
    /\ emitted' = (IF r.index # None /\ r.item.status = "ok"
                   THEN Append(emitted, [end |-> end, index |-> r.index[1], cursor |-> r.item.cursor])
                   ELSE emitted)
    /\ semitted' = (IF s.index # None /\ s.status = "ok"
                    THEN Append(semitted, [end |-> end, index |-> s.index[1], item |-> s.item])
                    ELSE semitted)
    /\ UNCHANGED <<overflow_checks, ctor, img, ub, run, lanes, cvars, gvars, safe, sfwd, sbwd>>

SafeWinNext == SafeWinStep(IterWindowsPtr_next(wseq), IterWindows_next(swseq), "front")

SafeWinNextBack ==
    SafeWinStep(IterWindowsPtr_next_back(wseq), IterWindows_next_back(swseq), "back")

InitSafe == Init

NextSafe ==
    \/ SafeRow
    \/ SafeCol
    \/ SafeRows
    \/ SafeCols
    \/ SafeNext
    \/ SafeNextBack
    \/ SafeLen
    \/ SafeWinNext
    \/ SafeWinNextBack

SpecSafe == InitSafe /\ [][NextSafe]_vars

InitSimd == Init

NextSimd ==
    \/ SimdNew
    \/ SimdRowsPtrGroup
    \/ SimdColsPtrGroup
    \/ SimdRowsPtrUncheckedGroup
    \/ SimdColsPtrUncheckedGroup
    \/ SimdRowsGroup
    \/ SimdColsGroup
    \/ SimdRowsPtrMutGroup
    \/ SimdColsPtrMutGroup
    \/ RowsBatch
    \/ ColsBatch
    \/ GroupNext
    \/ GroupNextBack
    \/ GroupLen

SpecSimd == InitSimd /\ [][NextSimd]_vars

\* ------------------------------------------------------------ properties
\* ceil(a / b) over the integers
CeilDiv(a, b) == (a + b - 1) \div b

\* neither end of the cursor returns an address
BothEndsEmpty == IterPtr_next(cur).item = None /\ IterPtr_next_back(cur).item = None

RowCtors ==
    {"IterPtr::row_ptr", "IterPtr::row_ptr_unchecked", "IterPtrMut::row_ptr",
     "Iter::row_ptr", "Iter::row", "IterMut::row"}

ColCtors ==
    {"IterPtr::col_ptr", "IterPtr::col_ptr_unchecked", "IterPtrMut::col_ptr",
     "Iter::col_ptr", "Iter::col", "IterMut::col"}

CheckedRowCtors == RowCtors \ {"IterPtr::row_ptr_unchecked"}

CheckedColCtors == ColCtors \ {"IterPtr::col_ptr_unchecked"}

\* the backing store is shorter than stride*(height-1)+width
TooShort == img.buflen < Needed(img.width, img.height, img.stride)

\* C1: a cursor built with count C and stride S >= 1 returns exactly ceil(C/S)
\* addresses before both ends report exhaustion, however the calls are split
\* between next() and next_back(); C = 0 gives none.
C1_YieldCount ==
    c0.stride >= 1 =>
        /\ Yields <= CeilDiv(c0.len, c0.stride)
        /\ BothEndsEmpty <=> Yields = CeilDiv(c0.len, c0.stride)
        /\ exhausted => Yields = CeilDiv(c0.len, c0.stride)

C1_Witness ==
    /\ exhausted
    /\ c0.stride >= 2
    /\ Len(fwd) >= 1
    /\ Len(bwd) >= 1
    /\ Yields = 3

\* C2: at every state of a live cursor len() returns the number of addresses
\* still to come from both ends together, and returns 0 exactly when next()
\* and next_back() both return nothing.
C2_LenIsRemaining ==
    (pc = "live" /\ c0.stride >= 1) =>
        LET l == IterPtr_len(cur, overflow_checks)
        IN  /\ l.status = "ok"
            /\ l.v = CeilDiv(cur.len, cur.stride)
            /\ l.v = 0 <=> BothEndsEmpty

\* C3: the addresses from next() strictly increase, those from next_back()
\* strictly decrease, every next() address lies below every next_back()
\* address, and an address either end would return next lies strictly between
\* the two histories, so the ends never cross and nothing is returned twice.
C3_AddressOrder ==
    /\ \A i, j \in 1 .. Len(fwd) : i < j => fwd[i] < fwd[j]
    /\ \A i, j \in 1 .. Len(bwd) : i < j => bwd[i] > bwd[j]
    /\ \A i \in 1 .. Len(fwd), j \in 1 .. Len(bwd) : fwd[i] < bwd[j]
    /\ \A e \in {IterPtr_next(cur).item, IterPtr_next_back(cur).item} :
          e # None =>
              /\ \A i \in 1 .. Len(fwd) : fwd[i] < e[1]
              /\ \A j \in 1 .. Len(bwd) : e[1] < bwd[j]

C3_Witness ==
    /\ Len(fwd) >= 2
    /\ Len(bwd) >= 2
    /\ exhausted

\* C4: successive next() addresses differ by exactly the stride and so do
\* successive next_back() addresses; the base moves by the stride after a
\* next() that leaves elements, and by the short final step (count % stride,
\* or the stride when that is 0) after the next() that empties the run.
C4_StrideSteps ==
    c0.stride >= 1 =>
        /\ \A i \in 1 .. (Len(fwd) - 1) : fwd[i + 1] - fwd[i] = c0.stride
        /\ \A i \in 1 .. (Len(bwd) - 1) : bwd[i] - bwd[i + 1] = c0.stride
        /\ (fwd # <<>> /\ cur.len > 0) => cur.base - fwd[Len(fwd)] = c0.stride
        /\ (fwd # <<>> /\ bwd = <<>> /\ cur.len = 0) =>
              cur.base - fwd[Len(fwd)] =
                  (IF c0.len % c0.stride = 0 THEN c0.stride ELSE c0.len % c0.stride)

C4_Witness ==
    /\ c0.stride >= 2
    /\ Len(fwd) >= 3
    /\ cur.len = 0
    /\ cur.base - fwd[Len(fwd)] < c0.stride

\* C5: once next() or next_back() has returned nothing, every later call of
\* either returns nothing (no address joins either history) and leaves the
\* cursor as it was.
C5_ExhaustionPermanent ==
    [][exhausted =>
          /\ exhausted'
          /\ cur' = cur
          /\ fwd' = fwd
          /\ bwd' = bwd]_vars

C5_Witness ==
    /\ exhausted
    /\ BothEndsEmpty
    /\ Len(fwd) >= 2
    /\ Len(bwd) >= 1

\* C6: the cursor of row R < H of a buffer (W, H, ST) is the run of W elements
\* at base + ST*R with stride 1, and next() returns base + ST*R + i for
\* i = 0 .. W-1 in that order.
C6_RowAddresses ==
    (pc = "live" /\ ctor \in RowCtors /\ idx < img.height) =>
        /\ c0 = Cursor(img.data + img.stride * idx, img.width, 1)
        /\ bwd = <<>> =>
              /\ Len(fwd) <= img.width
              /\ \A i \in 1 .. Len(fwd) : fwd[i] = img.data + img.stride * idx + (i - 1)
        /\ (bwd = <<>> /\ BothEndsEmpty) => Len(fwd) = img.width

C6_Witness ==
    /\ pc = "live"
    /\ ctor = "IterPtr::row_ptr"
    /\ idx = 2
    /\ img.width = 4
    /\ img.height = 3
    /\ img.stride = 5
    /\ fwd = <<img.data + 10, img.data + 11, img.data + 12, img.data + 13>>
    /\ exhausted

\* C7: the cursor of column C < W of a buffer (W, H, ST) returns from next()
\* the addresses base + C + ST*j for j = 0 .. H-1 in that order, and its len()
\* before any call is H.
C7_ColAddresses ==
    (pc = "live" /\ ctor \in ColCtors /\ idx < img.width) =>
        /\ bwd = <<>> =>
              /\ Len(fwd) <= img.height
              /\ \A i \in 1 .. Len(fwd) : fwd[i] = img.data + idx + img.stride * (i - 1)
        /\ (bwd = <<>> /\ BothEndsEmpty) => Len(fwd) = img.height
        /\ Yields = 0 => IterPtr_len(cur, overflow_checks) = [status |-> "ok", v |-> img.height]

\* C8: a checked row constructor called with row >= height, or a checked
\* column constructor called with col >= width, aborts: no cursor is returned
\* and no address was computed from the index.
C8_IndexChecked ==
    (pc # "start" /\ (\/ ctor \in CheckedRowCtors /\ idx >= img.height
                      \/ ctor \in CheckedColCtors /\ idx >= img.width)) =>
        /\ pc = "aborted"
        /\ ~computed
        /\ cur = NoCursor

C8_Witness ==
    /\ pc = "aborted"
    /\ ctor = "Iter::row"
    /\ img.height >= 1
    /\ idx = img.height
    /\ ~TooShort
    /\ ~computed

\* C9: a checked row or column constructor, pointer-level or safe wrapper,
\* aborts when the backing store holds fewer than stride*(height-1)+width
\* elements.
C9_ShortBufferAborts ==
    (pc # "start" /\ ctor \in (CheckedRowCtors \cup CheckedColCtors) /\ TooShort) =>
        pc = "aborted"

\* C10: a window sequence over the rows or columns of a buffer, plain or
\* lane-grouped, aborts at construction when the backing store holds fewer
\* than stride*(height-1)+width elements.
C10_SeqShortBufferAborts ==
    (pc # "start" /\ ctor \in (PlainSeqCtors \cup {"SimdIterWindowsPtr::rows_ptr",
                                                   "SimdIterWindowsPtr::cols_ptr"})
                  /\ TooShort) =>
        pc = "aborted"

CheckedRunCtors ==
    {"IterPtr::new", "IterPtr::new_slice", "Iter::new", "Iter::new_ptr",
     "IterPtrMut::new", "IterPtrMut::new_slice", "IterMut::new", "IterMut::new_ptr",
     "IterWindowsPtr::new", "IterWindowsPtrMut::new", "SimdIterWindowsPtr::new"}

UncheckedRunCtors ==
    {"IterPtr::new_unchecked", "IterPtr::new_slice_unchecked",
     "Iter::new_unchecked", "Iter::new_ptr_unchecked",
     "IterPtrMut::new_unchecked", "IterPtrMut::new_slice_unchecked",
     "IterMut::new_unchecked", "IterMut::new_ptr_unchecked"}

\* count != 0 and stride != 1 and count % stride != 1 (no remainder is 1 when
\* the stride is 0)
NotSlicePerfect(len, stride) ==
    len # 0 /\ stride # 1 /\ (stride = 0 \/ len % stride # 1)

\* the constructor returned the cursor, or the sequence, over the run it was given
BuiltOverRun ==
    \/ c0 = run
    \/ /\ wseq # NoSeq
       /\ wseq.base = run.base
       /\ wseq.len = run.len
       /\ wseq.slice_stride = run.stride

\* the constructor returned nothing
BuiltNothing == c0 = NoCursor /\ wseq = NoSeq

\* C11: a checked run constructor aborts whenever the run is not slice-perfect
\* (count != 0, stride != 1, count % stride != 1) and returns the cursor (or
\* sequence) over the run whenever the run is slice-perfect with stride >= 1.
C11_CheckedRunCtor ==
    (pc # "start" /\ ctor \in CheckedRunCtors) =>
        /\ NotSlicePerfect(run.len, run.stride) => (pc = "aborted" /\ BuiltNothing)
        /\ (~NotSlicePerfect(run.len, run.stride) /\ run.stride >= 1) => BuiltOverRun

C11_Witness ==
    /\ pc = "aborted"
    /\ ctor = "Iter::new"
    /\ run.len = 6
    /\ run.stride = 3
    /\ BuiltNothing

\* C12: an unchecked run constructor skips the slice-perfect check: given a
\* run with count > 0, stride > 1 and count % stride != 1 it returns the
\* cursor over that run and does not abort.
C12_UncheckedSkipsCheck ==
    (pc # "start" /\ ctor \in UncheckedRunCtors
                  /\ run.len > 0 /\ run.stride > 1 /\ run.len % run.stride # 1) =>
        c0 = run

RowSeqCtors == {"IterWindowsPtr::rows_ptr", "IterWindows::rows"}

ColSeqCtors == {"IterWindowsPtr::cols_ptr", "IterWindows::cols"}

\* the number of indices of the sequence: height for rows, width for cols
SeqN == IF ctor \in RowSeqCtors THEN img.height ELSE img.width

\* the windows emitted at one end, in the order they were emitted
EmittedAt(end) == SelectSeq(emitted, LAMBDA e : e.end = end)

\* C13: for a window sequence over N indices len() is the length of the
\* remaining index range: N at first, one less after each window; next()
\* takes the indices 0, 1, 2, ... and next_back() takes N-1, N-2, ..., no
\* index is taken twice, no step aborts, and when the range is empty exactly
\* N windows have been produced.
C13_SeqLenAndIndices ==
    (ctor \in PlainSeqCtors /\ wseq # NoSeq) =>
        /\ pc = "windows"
        /\ IterWindowsPtr_len(wseq) = SeqN - Len(emitted)
        /\ \A i \in 1 .. Len(EmittedAt("front")) : EmittedAt("front")[i].index = i - 1
        /\ \A i \in 1 .. Len(EmittedAt("back")) : EmittedAt("back")[i].index = SeqN - i
        /\ \A i, j \in 1 .. Len(emitted) : i # j => emitted[i].index # emitted[j].index
        /\ IterWindowsPtr_next(wseq).index = None => Len(emitted) = SeqN

\* C14: the cursor a window sequence emits for index k is (base + stride*k,
\* width, 1) for rows and (base + k, stride*(height-1) + 1, stride) for cols,
\* so every window has the count and the cursor stride of the first window.
C14_WindowCursor ==
    (ctor \in PlainSeqCtors /\ wseq # NoSeq) =>
        \A i \in 1 .. Len(emitted) :
            LET k == emitted[i].index
                c == emitted[i].cursor
            IN  /\ ctor \in RowSeqCtors => c = Cursor(img.data + img.stride * k, img.width, 1)
                /\ ctor \in ColSeqCtors =>
                       c = Cursor(img.data + k, img.stride * (img.height - 1) + 1, img.stride)
                /\ c.len = wseq.len
                /\ c.stride = wseq.slice_stride

\* the lane group constructors over a buffer, and the lane sequences whose
\* batches are lane groups
RowGroupCtors ==
    {"SimdIterPtr::rows_ptr", "SimdIterPtr::rows_ptr_unchecked", "SimdIter::rows",
     "SimdIterPtrMut::rows_ptr", "SimdIterWindowsPtr::rows_ptr"}

ColGroupCtors ==
    {"SimdIterPtr::cols_ptr", "SimdIterPtr::cols_ptr_unchecked", "SimdIter::cols",
     "SimdIterPtrMut::cols_ptr", "SimdIterWindowsPtr::cols_ptr"}

CheckedRowGroupCtors == {"SimdIterPtr::rows_ptr", "SimdIter::rows", "SimdIterPtrMut::rows_ptr"}

CheckedColGroupCtors == {"SimdIterPtr::cols_ptr", "SimdIter::cols", "SimdIterPtrMut::cols_ptr"}

\* a lane group is under iteration
GroupLive == pc = "live" /\ grp # NoGroup

\* C15: every array a lane group with gap G returns, from either end, is
\* [a, a + G, ..., a + (LANES - 1) * G], where a is the address the wrapped
\* cursor returns for the same step
C15_LaneAddresses ==
    /\ \A n \in 1 .. Len(fwdL) :
          /\ n <= Len(fwd)
          /\ DOMAIN fwdL[n] = 1 .. lanes
          /\ \A k \in 1 .. lanes : fwdL[n][k] = fwd[n] + (k - 1) * grp.gap
    /\ \A n \in 1 .. Len(bwdL) :
          /\ n <= Len(bwd)
          /\ DOMAIN bwdL[n] = 1 .. lanes
          /\ \A k \in 1 .. lanes : bwdL[n][k] = bwd[n] + (k - 1) * grp.gap

C15_Witness ==
    /\ GroupLive /\ lanes = 3 /\ grp.gap = 2
    /\ Len(fwdL) >= 1 /\ fwdL[1] = <<BufBase, BufBase + 2, BufBase + 4>>
    /\ Len(bwdL) >= 1

\* C16: lane k of a lane group anchored at row (column) i returns exactly the
\* addresses the plain cursor of row (column) i + k returns, in the same
\* order and as many, for the groups built over a buffer and for the batches
\* of a lane sequence
C16_LaneIsPlainCursor ==
    (GroupLive /\ ctor \in RowGroupCtors \cup ColGroupCtors) =>
        /\ Len(plain) = lanes
        /\ Len(pfwd) = Len(fwdL)
        /\ Len(pbwd) = Len(bwdL)
        /\ \A n \in 1 .. Len(fwdL) : \A k \in 1 .. lanes :
              n <= Len(pfwd) /\ pfwd[n][k] = Some(fwdL[n][k])
        /\ \A n \in 1 .. Len(bwdL) : \A k \in 1 .. lanes :
              n <= Len(pbwd) /\ pbwd[n][k] = Some(bwdL[n][k])
        /\ \A k \in 1 .. Len(plain) :
              /\ (IterPtr_next(plain[k]).item = None) <=> (SimdIterPtr_next(grp, lanes).item = None)
              /\ (IterPtr_next_back(plain[k]).item = None)
                    <=> (SimdIterPtr_next_back(grp, lanes).item = None)

C16_Witness ==
    /\ GroupLive /\ ctor = "SimdIterPtr::rows_ptr" /\ lanes = 2 /\ idx = 1
    /\ img.stride = 3 /\ img.width = 2
    /\ Len(fwdL) = 1 /\ Len(bwdL) = 1 /\ fwdL[1][2] = BufBase + 6

\* C17: a lane group has as many steps as its wrapped cursor: len() agrees
\* with the wrapped cursor's at every step, and the group returns None at an
\* end exactly when the wrapped cursor does
C17_LaneGroupLen ==
    GroupLive =>
        /\ SimdIterPtr_len(grp, overflow_checks) = IterPtr_len(cur, overflow_checks)
        /\ Len(fwdL) = Len(fwd)
        /\ Len(bwdL) = Len(bwd)
        /\ gex = exhausted
        /\ (SimdIterPtr_next(grp, lanes).item = None) <=> (IterPtr_next(cur).item = None)
        /\ (SimdIterPtr_next_back(grp, lanes).item = None)
              <=> (IterPtr_next_back(cur).item = None)

C17_Witness ==
    /\ GroupLive /\ lanes = 3 /\ gex /\ exhausted
    /\ Len(fwdL) = 1 /\ Len(bwdL) = 1
    /\ SimdIterPtr_len(grp, overflow_checks).v = 0

\* the buffer describes a non-empty view its backing store holds
ValidBuffer ==
    /\ img.height >= 1
    /\ img.width <= img.stride
    /\ img.buflen >= Needed(img.width, img.height, img.stride)

\* C18: a checked lane group constructor aborts at construction when
\* row + LANES > height (col + LANES > width), and returns a group over a
\* valid buffer otherwise
C18_LaneBoundsChecked ==
    (pc # "start" /\ ctor \in CheckedRowGroupCtors \cup CheckedColGroupCtors) =>
        LET ext == IF ctor \in CheckedRowGroupCtors THEN img.height ELSE img.width
        IN  /\ idx + lanes > ext => (grp = NoGroup /\ fwdL = <<>> /\ bwdL = <<>>)
            /\ (idx + lanes <= ext /\ ValidBuffer) => grp # NoGroup

\* the item the sequence has just returned
LastEmitted == emitted'[Len(emitted')]

\* a step of a lane sequence with LANES >= 1 that is the given call
LaneCall(name) ==
    pc = "windows" /\ ctor \in LaneSeqCtors /\ lanes >= 1 /\ call' = name

\* the forward rule of a lane sequence
ForwardRule ==
    IF wseq.hi - wseq.lo >= lanes
    THEN /\ pc' = "windows"
         /\ wseq' = [wseq EXCEPT !.lo = wseq.lo + lanes]
         /\ Len(emitted') = Len(emitted) + 1
         /\ LastEmitted.end = "front" /\ LastEmitted.simd /\ LastEmitted.index = wseq.lo
    ELSE IF wseq.hi - wseq.lo >= 1
    THEN /\ pc' = "windows"
         /\ wseq' = [wseq EXCEPT !.lo = wseq.lo + 1]
         /\ Len(emitted') = Len(emitted) + 1
         /\ LastEmitted.end = "front" /\ ~LastEmitted.simd /\ LastEmitted.index = wseq.lo
    ELSE pc' = "windows" /\ wseq' = wseq /\ emitted' = emitted

\* the backward rule of a lane sequence
BackwardRule ==
    IF wseq.hi - wseq.lo >= lanes
    THEN /\ pc' = "windows"
         /\ wseq' = [wseq EXCEPT !.hi = wseq.hi - lanes]
         /\ Len(emitted') = Len(emitted) + 1
         /\ LastEmitted.end = "back" /\ LastEmitted.simd /\ LastEmitted.index = wseq.hi - lanes
    ELSE IF wseq.hi - wseq.lo >= 1
    THEN /\ pc' = "windows"
         /\ wseq' = [wseq EXCEPT !.hi = wseq.hi - 1]
         /\ Len(emitted') = Len(emitted) + 1
         /\ LastEmitted.end = "back" /\ ~LastEmitted.simd /\ LastEmitted.index = wseq.hi - 1
    ELSE pc' = "windows" /\ wseq' = wseq /\ emitted' = emitted

\* C19: a forward step of a lane sequence with LANES >= 1 takes LANES indices
\* off the front and returns a Batch anchored at the first of them when at
\* least LANES remain, else takes one index and returns a Single for it, and
\* returns nothing when none remain
C19_ForwardStep == [][LaneCall("next") => ForwardRule]_vars

\* C20: a backward step of a lane sequence takes the last LANES indices
\* [end - LANES, end) and returns a Batch anchored at end - LANES when at
\* least LANES remain, else takes the last index and returns a Single for it
C20_BackwardStep == [][LaneCall("next_back") => BackwardRule]_vars

\* the number of items next() returns from q on until it returns None or aborts
RECURSIVE ForwardItems(_, _)
ForwardItems(q, l) ==
    LET r == SimdIterWindowsPtr_next(q, l)
    IN  IF r.status = "ok" THEN 1 + ForwardItems(r.seq, l) ELSE 0

\* the number of items next_back() returns from q on
RECURSIVE BackwardItems(_, _)
BackwardItems(q, l) ==
    LET r == SimdIterWindowsPtr_next_back(q, l)
    IN  IF r.status = "ok" THEN 1 + BackwardItems(r.seq, l) ELSE 0

\* a lane sequence with LANES >= 1 has been built
LaneSeqBuilt == ctor \in LaneSeqCtors /\ lanes >= 1 /\ wseq # NoSeq

\* C21: for a lane sequence with r remaining indices len() is
\* r / LANES + r % LANES, and that is the number of next() calls that return
\* an item from here on, and the number of next_back() calls that do
C21_LaneSeqLen ==
    (pc = "windows" /\ LaneSeqBuilt) =>
        LET r == wseq.hi - wseq.lo
            n == SimdIterWindowsPtr_len(wseq, lanes)
        IN  /\ n.status = "ok"
            /\ n.v = (r \div lanes) + (r % lanes)
            /\ n.v = ForwardItems(wseq, lanes)
            /\ n.v = BackwardItems(wseq, lanes)

\* the number of indices an emitted item covers
Covered(e) == IF e.simd THEN lanes ELSE 1

RECURSIVE CoveredBy(_)
CoveredBy(es) == IF es = <<>> THEN 0 ELSE Covered(Head(es)) + CoveredBy(Tail(es))

\* the number of indices the lane sequence was built over
LaneSeqN ==
    IF ctor \in {"SimdIterWindowsPtr::rows_ptr", "SimdIterWindowsMut::rows"} THEN img.height
    ELSE IF ctor \in {"SimdIterWindowsPtr::cols_ptr", "SimdIterWindowsMut::cols"} THEN img.width
    ELSE wseq.hi + CoveredBy(EmittedAt("back"))

Batches == SelectSeq(emitted, LAMBDA e : e.simd)
Singles == SelectSeq(emitted, LAMBDA e : ~e.simd)

\* the traversal is over: the range is empty, or a step has aborted
TraversalOver ==
    \/ pc = "windows" /\ wseq.lo = wseq.hi
    \/ pc = "aborted" /\ call \in {"next", "next_back"}

\* C22: a lane sequence over N indices returns, until exhaustion, N / LANES
\* batches and N % LANES singles whatever the ends the steps are taken at,
\* and at every point len() is r / LANES + r % LANES for the r remaining
\* indices, which is what is still to come
C22_BatchAndSingleCounts ==
    LaneSeqBuilt =>
        /\ TraversalOver =>
              /\ Len(Batches) = LaneSeqN \div lanes
              /\ Len(Singles) = LaneSeqN % lanes
        /\ pc = "windows" =>
              LET r == wseq.hi - wseq.lo
              IN  /\ SimdIterWindowsPtr_len(wseq, lanes).v = (r \div lanes) + (r % lanes)
                  /\ SimdIterWindowsPtr_len(wseq, lanes).v
                        = (LaneSeqN \div lanes) + (LaneSeqN % lanes) - Len(emitted)

\* every step so far was taken at the front
PureForward == \A i \in 1 .. Len(emitted) : emitted[i].end = "front"

\* C23: under pure forward consumption over N indices the k-th item, for
\* k < N / LANES, is the batch of the indices k * LANES .. k * LANES + LANES - 1,
\* and the N % LANES items after them are the singles of the trailing
\* indices in ascending order
C23_BatchesThenSingles ==
    (LaneSeqBuilt /\ PureForward) =>
        LET nb == LaneSeqN \div lanes
        IN  /\ \A i \in 1 .. Len(emitted) :
                  IF i <= nb
                  THEN emitted[i].simd /\ emitted[i].index = (i - 1) * lanes
                  ELSE ~emitted[i].simd /\ emitted[i].index = nb * lanes + (i - nb - 1)
            /\ TraversalOver => Len(emitted) = nb + (LaneSeqN % lanes)

SafeCursorCtors == {"Iter::row and IterPtr::row", "Iter::col and IterPtr::col"}

SafeSeqCtors ==
    {"IterWindows::rows and IterWindowsPtr::rows", "IterWindows::cols and IterWindowsPtr::cols"}

\* the index handed to the pair of constructors is in range
IndexInRange ==
    IF ctor = "Iter::row and IterPtr::row" THEN idx < img.height ELSE idx < img.width

\* C24: over the same valid buffer and index the safe wrapper returns
\* references to exactly the addresses the pointer cursor returns, in the
\* same order and with the same len() at every step, and the safe sequence
\* emits the wrappers of exactly the cursors the pointer sequence emits
C24_SafeProjection ==
    /\ (pc # "start" /\ ctor \in SafeCursorCtors /\ ValidBuffer /\ IndexInRange) =>
          /\ pc = "live"
          /\ Len(sfwd) = Len(fwd)
          /\ Len(sbwd) = Len(bwd)
          /\ \A n \in 1 .. Len(fwd) : n <= Len(sfwd) /\ sfwd[n] = Ref(fwd[n])
          /\ \A n \in 1 .. Len(bwd) : n <= Len(sbwd) /\ sbwd[n] = Ref(bwd[n])
          /\ Iter_len(safe, overflow_checks) = IterPtr_len(cur, overflow_checks)
          /\ (Iter_next(safe).item = None) <=> (IterPtr_next(cur).item = None)
          /\ (Iter_next_back(safe).item = None) <=> (IterPtr_next_back(cur).item = None)
    /\ (pc # "start" /\ ctor \in SafeSeqCtors /\ ValidBuffer) =>
          /\ pc = "windows"
          /\ Len(semitted) = Len(emitted)
          /\ \A i \in 1 .. Len(emitted) :
                /\ i <= Len(semitted)
                /\ semitted[i].end = emitted[i].end
                /\ semitted[i].index = emitted[i].index
                /\ semitted[i].item = Iter_wrap(emitted[i].cursor)
          /\ IterWindows_len(swseq) = IterWindowsPtr_len(wseq)

C24_Witness ==
    /\ pc = "live" /\ ctor = "Iter::col and IterPtr::col" /\ ValidBuffer /\ idx = 1
    /\ img.stride = 2 /\ img.height = 3
    /\ sfwd = <<Ref(BufBase + 1)>> /\ sbwd = <<Ref(BufBase + 5)>>

\* the mutable sequences over the rows or the columns of a buffer
MutBufSeqCtors ==
    {"IterWindowsMut::rows", "IterWindowsMut::cols",
     "SimdIterWindowsMut::rows", "SimdIterWindowsMut::cols"}

\* the lanes of an emitted item: 0 .. LANES - 1 for a batch, one otherwise
ItemLanes(e) == IF ctor \in LaneSeqCtors /\ e.simd THEN 0 .. (lanes - 1) ELSE {0}

\* the cursor lane k of an emitted item runs over
LaneCursor(e, k) == IF k = 0 THEN e.cursor ELSE [e.cursor EXCEPT !.base = @ + k * e.gap]

\* the addresses a cursor returns until it is exhausted
Reach(c) == {c.base + k * c.stride : k \in 0 .. (CeilDiv(c.len, c.stride) - 1)}

\* a is one of the addresses the cursor c returns
Reaches(c, a) ==
    /\ a >= c.base
    /\ (a - c.base) % c.stride = 0
    /\ (a - c.base) \div c.stride < CeilDiv(c.len, c.stride)

\* C25: over a buffer with width <= stride, no element address is reached
\* through two different items a mutable window sequence has emitted,
\* whatever the ends the steps were taken at, and no two lanes of one batch
\* reach the same address
C25_MutableItemsDisjoint ==
    (ctor \in MutBufSeqCtors /\ img.width <= img.stride) =>
        \A i, j \in 1 .. Len(emitted) :
            \A k \in ItemLanes(emitted[i]), m \in ItemLanes(emitted[j]) :
                (i # j \/ k # m) =>
                    \A a \in Reach(LaneCursor(emitted[i], k)) :
                        ~Reaches(LaneCursor(emitted[j], m), a)

C25_Witness ==
    /\ pc = "windows" /\ ctor = "SimdIterWindowsMut::cols" /\ lanes = 2
    /\ img.width = 3 /\ img.stride = 3 /\ img.height = 2
    /\ Len(emitted) = 2 /\ emitted[1].end = "back" /\ emitted[1].simd
    /\ emitted[2].end = "front" /\ ~emitted[2].simd

\* count - stride, or 0 when the stride is the larger
CountAfter == IF cur.len - cur.stride > 0 THEN cur.len - cur.stride ELSE 0

\* a step of a live cursor that is not a call of next_back() on a non-empty
\* cursor and not a call of len()
FrontStep ==
    /\ pc = "live" /\ pc' = "live"
    /\ bwd' = bwd
    /\ cur' # cur \/ fwd' # fwd \/ exhausted' # exhausted

\* a step of a live cursor that is not a call of next() on a non-empty
\* cursor and not a call of len()
BackStep ==
    /\ pc = "live" /\ pc' = "live"
    /\ fwd' = fwd
    /\ cur' # cur \/ bwd' # bwd \/ exhausted' # exhausted

\* C26: next() on a cursor with count > 0 returns the base, then the base is
\* base + min(stride, count), the count is max(count - stride, 0) and the
\* stride is as before; with count = 0 it returns nothing
C26_NextStep ==
    [][FrontStep =>
          IF cur.len > 0
          THEN /\ fwd' = Append(fwd, cur.base)
               /\ cur'.base = cur.base + (IF cur.stride < cur.len THEN cur.stride ELSE cur.len)
               /\ cur'.len = CountAfter
               /\ cur'.stride = cur.stride
          ELSE fwd' = fwd /\ cur' = cur]_vars

C26_Witness ==
    /\ pc = "live" /\ c0 = Cursor(BufBase, 4, 3)
    /\ fwd = <<BufBase, BufBase + 3>> /\ cur = Cursor(BufBase + 4, 0, 3) /\ bwd = <<>>

\* C27: next_back() on a cursor with count > 0 returns base + (count - 1) for
\* the count before the step, then the count is max(count - stride, 0) and
\* the base and the stride are as before; with count = 0 it returns nothing
C27_NextBackStep ==
    [][BackStep =>
          IF cur.len > 0
          THEN /\ bwd' = Append(bwd, cur.base + (cur.len - 1))
               /\ cur'.len = CountAfter
               /\ cur'.base = cur.base
               /\ cur'.stride = cur.stride
          ELSE bwd' = bwd /\ cur' = cur]_vars

C27_Witness ==
    /\ pc = "live" /\ c0 = Cursor(BufBase, 4, 3)
    /\ bwd = <<BufBase + 3, BufBase>> /\ cur = Cursor(BufBase, 0, 3) /\ fwd = <<>>

\* C28: a step of a window sequence changes only the remaining index range:
\* the anchor address, the window count, the cursor stride and the per-step
\* displacement stay as they were, and the cursors emitted before the step
\* are as they were
C28_StepChangesRangeOnly ==
    [][(pc = "windows" /\ ctor \in SteppedSeqCtors) =>
          /\ wseq'.base = wseq.base
          /\ wseq'.len = wseq.len
          /\ wseq'.slice_stride = wseq.slice_stride
          /\ wseq'.iter_stride = wseq.iter_stride
          /\ Len(emitted') >= Len(emitted)
          /\ \A i \in 1 .. Len(emitted) : emitted'[i] = emitted[i]]_vars

C28_Witness ==
    /\ pc = "windows" /\ ctor = "IterWindowsPtr::cols_ptr"
    /\ img.width = 3 /\ img.height = 2 /\ img.stride = 3
    /\ wseq = [WinSeq(BufBase, 4, 3, 1, 3) EXCEPT !.lo = 2]
    /\ Len(emitted) = 2 /\ emitted[1].end = "front" /\ emitted[2].end = "front"
    /\ emitted[2].cursor = Cursor(BufBase + 1, 4, 3)

\* C29: assert_slice_enough returns for a buffer with height >= 1 exactly
\* when its backing store holds stride * (height - 1) + width elements and
\* width <= stride; in every other case it aborts
C29_SliceEnoughExactly ==
    (ctor = "IterPtr::assert_slice_enough" /\ img.height >= 1) =>
        (pc = "accepted" <=>
            (img.buflen >= Needed(img.width, img.height, img.stride) /\ img.width <= img.stride))

\* the addresses either end of the cursor has returned
Yielded == {fwd[i] : i \in 1 .. Len(fwd)} \cup {bwd[i] : i \in 1 .. Len(bwd)}

\* a is base + k * stride of the cursor as constructed for some
\* k < ceil(count / stride)
InRun(a) ==
    /\ a >= c0.base
    /\ (a - c0.base) % c0.stride = 0
    /\ (a - c0.base) \div c0.stride < CeilDiv(c0.len, c0.stride)

\* C30: for a slice-perfect cursor (count C, stride S >= 1) every address
\* returned by next() or next_back(), however the calls interleave, is
\* base + k * S for some k < ceil(C / S) and is returned once; when the cursor
\* is exhausted all ceil(C / S) of them have been returned; next() alone
\* returns them in increasing k and next_back() alone in decreasing k, the
\* reverse order.
C30_EachAddressOnce ==
    (pc = "live" /\ c0.stride >= 1 /\ is_slice_perfect(c0.len, c0.stride)) =>
        LET n == CeilDiv(c0.len, c0.stride)
        IN  /\ \A a \in Yielded : InRun(a)
            /\ Cardinality(Yielded) = Yields
            /\ cur.len = 0 => Yields = n
            /\ bwd = <<>> => \A i \in 1 .. Len(fwd) : fwd[i] = c0.base + (i - 1) * c0.stride
            /\ fwd = <<>> => \A i \in 1 .. Len(bwd) : bwd[i] = c0.base + (n - i) * c0.stride

C30_Witness ==
    /\ pc = "live"
    /\ c0.len = 7 /\ c0.stride = 3
    /\ fwd = <<c0.base>>
    /\ bwd = <<c0.base + 6, c0.base + 3>>
    /\ cur.len = 0

\* is_slice_perfect(count, stride) evaluated without a division by zero
SlicePerfect(c) == ~is_slice_perfect_panics(c.len, c.stride) /\ is_slice_perfect(c.len, c.stride)

\* C31: a cursor that is slice-perfect as constructed (count = 0, stride = 1
\* or count % stride = 1) is slice-perfect after any sequence of next() and
\* next_back() calls.
C31_SlicePerfectKept ==
    (pc = "live" /\ SlicePerfect(c0)) => SlicePerfect(cur)

C31_Witness ==
    /\ pc = "live"
    /\ c0.len = 7 /\ c0.stride = 3
    /\ Len(fwd) = 1 /\ Len(bwd) = 1
    /\ cur.len = 1

\* C32: a cursor with stride >= 1 never leaves the run it was constructed
\* over: its base is never below the original base, its run ends no later
\* than the original run (so the base is at most one element past the last
\* original element), and every address returned lies in the original run.
C32_StaysInRun ==
    (pc = "live" /\ c0.stride >= 1) =>
        /\ c0.base <= cur.base
        /\ cur.base + cur.len <= c0.base + c0.len
        /\ \A a \in Yielded : c0.base <= a /\ a < c0.base + c0.len

C32_Witness ==
    /\ pc = "live"
    /\ c0.len = 7 /\ c0.stride = 3
    /\ Len(fwd) = 3 /\ bwd = <<>>
    /\ cur.base = c0.base + c0.len
    /\ cur.len = 0

\* ------------------------------------------------- everything over a buffer
\* the cursors, the window and lane sequences and the lane groups together;
\* a lane group is stepped by its own next() and next_back() only, and a
\* plain cursor by its own
InitAll == Init

NextAll ==
    \/ grp = NoGroup /\ Next
    \/ NextWin
    \/ (pc = "start" \/ grp # NoGroup) /\ NextSimd

SpecAll == InitAll /\ [][NextAll]_vars

\* a lies in the backing store [base, base + L) of the buffer
InStore(a) == img.data <= a /\ a < img.data + img.buflen

\* the constructors of window and lane sequences over a buffer
BufSeqCtors ==
    RowSeqCtors \cup ColSeqCtors \cup MutBufSeqCtors
        \cup {"SimdIterWindowsPtr::rows_ptr", "SimdIterWindowsPtr::cols_ptr"}

\* C33: over a buffer with height >= 1, width <= stride and a backing store
\* of at least stride * (height - 1) + width elements, every address returned
\* from either end by a row cursor (row < height), by a column cursor
\* (col < width) or by a lane of a lane group built with row + LANES <= height
\* or col + LANES <= width, and every address the cursor of an item of a
\* window or lane sequence reaches, lies in the backing store.
C33_AddressesInStore ==
    (img # NoImg /\ ValidBuffer) =>
        /\ (pc = "live" /\ grp = NoGroup
              /\ \/ ctor \in RowCtors /\ idx < img.height
                 \/ ctor \in ColCtors /\ idx < img.width) =>
                 \A a \in Yielded : InStore(a)
        /\ (GroupLive
              /\ \/ ctor \in RowGroupCtors /\ idx + lanes <= img.height
                 \/ ctor \in ColGroupCtors /\ idx + lanes <= img.width) =>
                 /\ \A n \in 1 .. Len(fwdL) : \A k \in 1 .. lanes : InStore(fwdL[n][k])
                 /\ \A n \in 1 .. Len(bwdL) : \A k \in 1 .. lanes : InStore(bwdL[n][k])
        /\ (pc = "windows" /\ ctor \in BufSeqCtors) =>
                 \A i \in 1 .. Len(emitted) : \A k \in ItemLanes(emitted[i]) :
                     LET c == LaneCursor(emitted[i], k)
                     IN  /\ c.stride >= 1
                         /\ c.len > 0 =>
                               /\ InStore(c.base)
                               /\ InStore(c.base + (CeilDiv(c.len, c.stride) - 1) * c.stride)

C33_Witness ==
    /\ GroupLive /\ ValidBuffer
    /\ ctor = "SimdIterPtr::cols_ptr" /\ idx = 1 /\ lanes = 2
    /\ img.width = 3 /\ img.height = 3 /\ img.stride = 4 /\ img.buflen = 11
    /\ fwdL = <<<<img.data + 1, img.data + 2>>>>
    /\ bwdL = <<<<img.data + 9, img.data + 10>>, <<img.data + 5, img.data + 6>>>>

\* len() of the lane sequence q
LaneSeqLen(q) == SimdIterWindowsPtr_len(q, lanes)

\* the lane sequence has items left exactly when len() is not 0, and then
\* either end returns one
LenCountsItems ==
    (pc = "windows" /\ LaneSeqBuilt) =>
        /\ LaneSeqLen(wseq).status = "ok"
        /\ \A r \in {SimdIterWindowsPtr_next(wseq, lanes), SimdIterWindowsPtr_next_back(wseq, lanes)} :
              IF LaneSeqLen(wseq).v > 0 THEN r.status = "ok" ELSE r.status = "none"

\* a call on the lane sequence that returns an item lowers len() by 1
ItemLowersLen ==
    (LaneSeqBuilt /\ Len(emitted') = Len(emitted) + 1) =>
        LaneSeqLen(wseq').v = LaneSeqLen(wseq).v - 1

\* C34: with LANES >= 1 every call of next() or next_back() on a lane
\* sequence that returns an item lowers len() by exactly 1, whatever the
\* order of the calls, and len() is the number of items still to be
\* returned: while it is not 0 a call at either end returns an item, and
\* when it is 0 no call does.
C34_LenDropsByOne == [][ItemLowersLen]_vars /\ []LenCountsItems

\* the indices an emitted item covers: LANES from its anchor for a batch,
\* its own index for a single
CoverSet(e) == e.index .. (e.index + Covered(e) - 1)

\* C35: with LANES >= 1, whatever the ends the steps are taken at, the items
\* a lane sequence over N indices has emitted cover indices of 0 .. N-1 only
\* and no index twice, and once the sequence is exhausted every index of
\* 0 .. N-1 is covered.
C35_EveryIndexOnce ==
    LaneSeqBuilt =>
        /\ \A i \in 1 .. Len(emitted) : CoverSet(emitted[i]) \subseteq 0 .. (LaneSeqN - 1)
        /\ \A i, j \in 1 .. Len(emitted) :
              i # j => CoverSet(emitted[i]) \cap CoverSet(emitted[j]) = {}
        /\ (pc = "windows" /\ wseq.lo = wseq.hi) =>
              UNION {CoverSet(emitted[i]) : i \in 1 .. Len(emitted)} = 0 .. (LaneSeqN - 1)

C35_Witness ==
    /\ pc = "windows" /\ ctor = "SimdIterWindowsPtr::new" /\ lanes = 2
    /\ wseq.lo = wseq.hi
    /\ Len(emitted) = 3
    /\ emitted[1].end = "back" /\ emitted[1].simd /\ emitted[1].index = 3
    /\ emitted[2].end = "front" /\ emitted[2].simd /\ emitted[2].index = 0
    /\ emitted[3].end = "back" /\ ~emitted[3].simd /\ emitted[3].index = 2

\* every step so far was taken at the back
PureBackward == \A i \in 1 .. Len(emitted) : emitted[i].end = "back"

\* the k-th item of pure forward consumption over N indices: its kind and
\* its anchor (batches first, then the singles, as next() returns them)
ForwardItem(k) ==
    LET nb == LaneSeqN \div lanes
    IN  IF k <= nb THEN [simd |-> TRUE, index |-> (k - 1) * lanes]
        ELSE [simd |-> FALSE, index |-> nb * lanes + (k - nb - 1)]

\* C36: under pure backward consumption of a lane sequence over N indices the
\* i-th item returned has the kind and the anchor of the i-th last item of
\* pure forward consumption, so that next_back() until exhaustion returns the
\* items of next() until exhaustion in reverse order.
C36_BackwardIsReverse ==
    (LaneSeqBuilt /\ PureBackward /\ pc = "windows" /\ wseq.lo = wseq.hi) =>
        LET t == (LaneSeqN \div lanes) + (LaneSeqN % lanes)
        IN  /\ Len(emitted) = t
            /\ \A i \in 1 .. Len(emitted) :
                  /\ emitted[i].simd = ForwardItem(t + 1 - i).simd
                  /\ emitted[i].index = ForwardItem(t + 1 - i).index

\* C37: with LANES >= 1 no call of next() or next_back() on a lane sequence
\* aborts: the batch branch is taken only while at least LANES indices
\* remain, and a call on an empty range returns nothing.
C37_NoStepAborts ==
    (pc = "windows" /\ LaneSeqBuilt) =>
        \A r \in {SimdIterWindowsPtr_next(wseq, lanes), SimdIterWindowsPtr_next_back(wseq, lanes)} :
            /\ r.status # "panic"
            /\ r.status = "ok" => (r.simd <=> wseq.hi - wseq.lo >= lanes)
            /\ wseq.lo = wseq.hi => r.status = "none"

\* the constructors of column sequences over a buffer
ColBufSeqCtors ==
    ColSeqCtors \cup {"IterWindowsMut::cols", "SimdIterWindowsPtr::cols_ptr",
                      "SimdIterWindowsMut::cols"}

\* C38: for a buffer with height 0 the lengths stride * (height - 1) + width
\* and stride * (height - 1) + 1 are never computed with an underflow:
\* assert_slice_enough does not evaluate an underflowing subtraction, a column
\* cursor has an empty run, and a column sequence has empty windows and
\* emits only cursors that return nothing.
C38_NoUnderflowAtHeightZero ==
    (img # NoImg /\ img.height = 0) =>
        /\ (ctor = "IterPtr::assert_slice_enough" /\ pc \in {"accepted", "aborted"}) =>
              ~StridedLen(img.stride, img.height, img.width).ovf
        /\ (pc = "live" /\ grp = NoGroup /\ ctor \in ColCtors) => c0.len = 0
        /\ (pc = "windows" /\ ctor \in ColBufSeqCtors) =>
              /\ wseq.len = 0
              /\ \A i \in 1 .. Len(emitted) : emitted[i].cursor.len = 0

\* the checked constructors that return a cursor
CheckedCursorCtors ==
    CheckedRunCtors \ {"IterWindowsPtr::new", "IterWindowsPtrMut::new", "SimdIterWindowsPtr::new"}

\* C39: a checked cursor constructor called with stride 0 aborts, whatever
\* the count, so the cursor it returns never has stride 0 and len() is never
\* evaluated with stride 0 on it.
C39_CheckedStrideNotZero ==
    (pc # "start" /\ ctor \in CheckedCursorCtors) =>
        /\ run.stride = 0 => pc = "aborted" /\ BuiltNothing
        /\ c0 # NoCursor => c0.stride >= 1

====
